---- MODULE Spec2Model ----
(***************************************************************************)
(* Claims-processing pipeline of the storm-damage back office:             *)
(*   damage_assessment.py    (Damage Assessor, Job Aggregator)             *)
(*   xactimate_integration.py (Claim Formatter, Submission Tracker)        *)
(*   payment_processing.py   (Payment Calculator)                          *)
(* The record stores are directories of JSON files; each store is a        *)
(* variable holding the records currently on disk.                         *)
(*                                                                         *)
(* Numbers.  Python floats are modelled by exact fixed-point integers:     *)
(*   money      in units of 1/100000 dollar  (Dollar == 100000)            *)
(*   fractions  (severity, confidence, area) in units of 1/10000           *)
(* so float rounding error is abstracted away.  The wall clock is counted  *)
(* in ticks, TicksPerDay ticks to a day.  uuid4() is a fresh-id counter.   *)
(* Fields that are only logged or displayed (record timestamps of the      *)
(* assessment, summary and claim, free-text descriptions and notes) are    *)
(* not carried in the records.                                             *)
(***************************************************************************)
EXTENDS Integers, Sequences, FiniteSets, TLC

VARIABLES
    now,          \* wall clock (ticks since the start of the run)
    next_uuid,    \* next value handed out by uuid.uuid4()
    faults_left,  \* record writes that may still fail in this run
    metadata,     \* photo_uploads/metadata/<photo_id>.json
    photo_files,  \* photo ids with a binary under photo_uploads/<job_id>/
    reports,      \* damage_reports/<job_id>/<assessment_id>.json
    summaries,    \* damage_reports/<job_id>/job_summary.json
    claims,       \* xactimate_claims/<job_id>_claim.json
    results,      \* xactimate_claims/<job_id>_result.json
    payments,     \* payment_records/<job_id>_payment.json
    pay_count,    \* number of PaymentRecord writes that succeeded, per job
    held,         \* approved_claims list a caller got from get_approved_claims
    payment_reports, \* payment_records/payment_report_<start>_to_<end>.json
    notifications,   \* payment_records/<job_id>_notification.json
    format_log,   \* outcomes of the direct format_for_xactimate calls so far
    active_campaigns, \* AdsCampaignManager.active_campaigns, by region id
    ret           \* the last operation invoked, its argument and return value

vars == <<now, next_uuid, faults_left, metadata, photo_files, reports, summaries,
          claims, results, payments, pay_count, held, payment_reports,
          notifications, format_log, active_campaigns, ret>>

-----------------------------------------------------------------------------
(* Bounds of the model *)

MaxTime == 9          \* the clock stops after this many ticks
TicksPerDay == 2      \* clock resolution
StartDay == 3         \* day of the month at tick 0
MaxFailures == 1      \* record writes that fail in a run with faults
MaxUuid == 9          \* at most this many uuid4() values are drawn
MaxEstDays == 3       \* largest estimated_processing_days drawn
MaxBlocks == 1        \* measurement blocks per category in formatter inputs
PipePool == 1         \* damage types the pipeline's random picks range over
MaxFormatCalls == 2   \* direct format_for_xactimate calls in a run
MaxLaterBlocks == 1   \* blocks after the first one in a category's list
MaxReports == 1       \* payment report files with distinct names
MaxPicks == 2         \* random picks of one analyze_photo call (the code: 1..3)
PickPool == 2         \* damage types the picks of a direct call range over

(* Program constants *)
DailyBudget == 300

MinEstDays == 3
TopEstDays == 10
DaysInMonth == 30
DateOfLossBack == 3

None == [none |-> TRUE]
NullStr == "null"

(* the content of a file that json.load cannot parse *)
Corrupt == [corrupt |-> TRUE]

Jobs == {1, 2}

Range(s) == {s[i] : i \in DOMAIN s}

RECURSIVE SumSeq(_)
SumSeq(s) == IF s = <<>> THEN 0 ELSE Head(s) + SumSeq(Tail(s))

RECURSIVE SumOver(_, _)
SumOver(S, f) ==
    IF S = {} THEN 0
    ELSE LET x == CHOOSE y \in S : TRUE IN f[x] + SumOver(S \ {x}, f)

Get(r, k, d) == IF k \in DOMAIN r THEN r[k] ELSE d

(* how many elements of S come before x *)
Before(S, x) == Cardinality({y \in S : y < x})

CountFalse(f) == Cardinality({x \in DOMAIN f : ~f[x]})

(* Round2 cutting off after the second decimal *)
Round2_truncating(num, den) == 100 * (num \div (100 * den))

(* round(num/den, 2) on fractions counted in 1/10000: the nearest multiple *)
(* of 100, ties to the even hundredth.                                     *)
Round2(num, den) ==
    LET d == 100 * den
        q == num \div d
        r == num % d
    IN  IF 2 * r > d THEN 100 * (q + 1)
        ELSE IF 2 * r < d THEN 100 * q
        ELSE 100 * (q + (q % 2))

-----------------------------------------------------------------------------
(* Damage Assessor: damage_assessment.py *)

damage_types == <<"roof", "siding", "structural", "water", "debris">>

Lower(s) ==
    CASE s = "Roof" -> "roof"
      [] s = "Water" -> "water"
      [] s = "Unknown" -> "unknown"
      [] OTHER -> s

(* Sample points of the random draws, indexed by level + 1 *)
SeveritySamples == <<3000, 9000, 5150>>
ConfidenceSamples == <<7000, 9800, 8250>>
AreaSamples == <<1000, 6000, 3333>>
RoofAreaSamples == <<1000, 800, 2500>>
SidingAreaSamples == <<400, 1800, 900>>
ComponentSamples == <<<<"wall">>, <<"ceiling", "beam">>, <<"floor", "wall", "column">>>>
WaterAreaSamples == <<200, 100, 1000>>
WaterCategorySamples == <<3, 1, 2>>
DebrisVolumeSamples == <<5, 50, 20>>

RoofBlock(area) ==
    [area_sqft |-> area, pitch |-> "4/12", material |-> "asphalt shingle",
     damage_percentage |-> 5000]
SidingBlock(area) ==
    [area_sqft |-> area, material |-> "vinyl", damage_percentage |-> 5000]
StructuralBlock(components) ==
    [affected_components |-> components, severity |-> "moderate"]
WaterBlock(area, cat) ==
    [affected_area_sqft |-> area, depth_inches |-> 6, category |-> cat]
DebrisBlock(volume) ==
    [volume_cubic_yards |-> volume, type |-> "mixed"]

Measurement(damage_type, l) ==
    CASE damage_type = "roof" -> RoofBlock(RoofAreaSamples[l + 1])
      [] damage_type = "siding" -> SidingBlock(SidingAreaSamples[l + 1])
      [] damage_type = "structural" -> StructuralBlock(ComponentSamples[l + 1])
      [] damage_type = "water" ->
            WaterBlock(WaterAreaSamples[l + 1], WaterCategorySamples[l + 1])
      [] damage_type = "debris" -> DebrisBlock(DebrisVolumeSamples[l + 1])

(* lines 134-145: the hinted type if valid, then the random picks *)
DetectedDamages(reported_damage_type, picks) ==
    LET seed == IF Lower(reported_damage_type) \in Range(damage_types)
                THEN <<Lower(reported_damage_type)>> ELSE <<>>
        RECURSIVE add(_, _)
        add(acc, i) ==
            IF i > Len(picks) THEN acc
            ELSE add(IF picks[i] \in Range(acc) THEN acc
                     ELSE Append(acc, picks[i]), i + 1)
    IN  add(seed, 1)

(* line 138: None.lower() raises AttributeError *)
AnalyzeRaises(m) == m.damage_type = NullStr

(* analyze_photo lines 147-200: the assessment record built for the photo *)
(* with metadata m, random outcome rnd and uuid id.                       *)
AssessmentOf(m, rnd, id) ==
    LET D == Range(DetectedDamages(m.damage_type, rnd.picks))
        damage_assessment ==
            [t \in D |-> [severity |-> SeveritySamples[rnd.lvl[t] + 1],
                          confidence |-> ConfidenceSamples[rnd.lvl[t] + 1],
                          area_percentage |-> AreaSamples[rnd.lvl[t] + 1]]]
        sev == [t \in D |-> damage_assessment[t].severity]
        conf == [t \in D |-> damage_assessment[t].confidence]
    IN  [photo_id |-> m.photo_id,
         job_id |-> m.job_id,
         assessment_id |-> id,
         damage_assessment |-> damage_assessment,
         xactimate_measurements |-> [t \in D |-> Measurement(t, rnd.lvl[t])],
         overall_severity |-> Round2(SumOver(D, sev), Cardinality(D)),
         overall_confidence |-> Round2(SumOver(D, conf), Cardinality(D))]

(* _update_metadata lines 266-275 *)
UpdatedMetadata(m, a) ==
    [m EXCEPT !.processing_status = "completed",
              !.assessment_id = a.assessment_id,
              !.overall_severity = a.overall_severity,
              !.overall_confidence = a.overall_confidence,
              !.detected_damage_types = DOMAIN a.damage_assessment]

(* get_pending_photos that lists only the photos marked pending *)
get_pending_photos_markedOnly ==
    {p \in DOMAIN metadata :
        /\ metadata[p] # Corrupt
        /\ Get(metadata[p], "processing_status", "absent") = "pending"
        /\ {"job_id", "photo_id"} \subseteq DOMAIN metadata[p]
        /\ p \in photo_files}

(* get_pending_photos lines 70-105.  The try of lines 74-103 skips a file *)
(* that json.load cannot parse, and one without job_id or photo_id,      *)
(* whose None makes os.path.join (line 84) or startswith (line 89)       *)
(* raise TypeError.                                                       *)
get_pending_photos ==
    {p \in DOMAIN metadata :
        /\ metadata[p] # Corrupt
        /\ Get(metadata[p], "processing_status", "absent")
                \in {"absent", "pending"}
        /\ {"job_id", "photo_id"} \subseteq DOMAIN metadata[p]
        /\ p \in photo_files}

-----------------------------------------------------------------------------
(* Job Aggregator: damage_assessment.py *)

(* os.listdir returns the files of a directory in an arbitrary order *)
Orders(S) ==
    {s \in [1..Cardinality(S) -> S] : Range(s) = S}

(* one directory of assessments shared by all jobs *)
JobDirFiles_shared(job_id) ==
    UNION {reports[j] : j \in DOMAIN reports} \cup
        (IF summaries[job_id] = None THEN {} ELSE {summaries[job_id]})

(* get_job_assessments lines 294-313: every .json file of the job         *)
(* directory, job_summary.json included once it has been written.         *)
JobDirFiles(job_id) ==
    reports[job_id] \cup
        (IF summaries[job_id] = None THEN {} ELSE {summaries[job_id]})

(* lines 305-310: a file that cannot be parsed is logged and left out *)
get_job_assessments(job_id) == Orders(JobDirFiles(job_id) \ {Corrupt})

DamageOf(assessment) == Get(assessment, "damage_assessment", <<>>)
MeasurementsOf(assessment) == Get(assessment, "xactimate_measurements", <<>>)

(* lines 351-352 and 369-370 index the loaded dicts with [...]: a record *)
(* without the key raises KeyError, which nothing in                     *)
(* generate_job_summary catches.                                          *)
SummaryRaises(assessments) ==
    \E i \in 1..Len(assessments) :
        \/ ~({"overall_severity", "overall_confidence"}
                \subseteq DOMAIN assessments[i])
        \/ \E t \in DOMAIN DamageOf(assessments[i]) :
                ~({"severity", "confidence"}
                    \subseteq DOMAIN DamageOf(assessments[i])[t])

(* lines 335-340: details of one damage type, in reading order *)
DetailsList(assessments, damage_type) ==
    LET has == SelectSeq(assessments,
                         LAMBDA a : damage_type \in DOMAIN DamageOf(a))
    IN  [i \in 1..Len(has) |-> DamageOf(has[i])[damage_type]]

(* lines 343-346: measurement blocks of one category, in reading order *)
MeasurementList(assessments, category) ==
    LET has == SelectSeq(assessments,
                         LAMBDA a : category \in DOMAIN MeasurementsOf(a))
    IN  [i \in 1..Len(has) |-> MeasurementsOf(has[i])[category]]

(* DamageSummaryEntry taking the values of the first photo only *)
DamageSummaryEntry_firstOnly(details_list) ==
    [severity |-> Round2(details_list[1].severity, 1),
     confidence |-> Round2(details_list[1].confidence, 1),
     area_percentage |-> Round2(Get(details_list[1], "area_percentage", 0), 1),
     photo_count |-> Len(details_list)]

(* lines 349-360 *)
DamageSummaryEntry(details_list) ==
    LET n == Len(details_list)
    IN  [severity |->
            Round2(SumSeq([i \in 1..n |-> details_list[i].severity]), n),
         confidence |->
            Round2(SumSeq([i \in 1..n |-> details_list[i].confidence]), n),
         area_percentage |->
            Round2(SumSeq([i \in 1..n |->
                        Get(details_list[i], "area_percentage", 0)]), n),
         photo_count |-> n]

(* JobSummaryOf marking the job ready only from the second assessment on *)
JobSummaryOf_readyFromTwo(job_id, assessments) ==
    LET n == Len(assessments)
        seen == UNION {DOMAIN DamageOf(assessments[i]) : i \in 1..n}
        cats == UNION {DOMAIN MeasurementsOf(assessments[i]) : i \in 1..n}
    IN  [job_id |-> job_id,
         assessment_count |-> n,
         damage_summary |->
            [t \in seen |-> DamageSummaryEntry(DetailsList(assessments, t))],
         xactimate_summary |->
            [c \in cats |-> MeasurementList(assessments, c)],
         overall_severity |->
            Round2(SumSeq([i \in 1..n |-> assessments[i].overall_severity]), n),
         overall_confidence |->
            Round2(SumSeq([i \in 1..n |-> assessments[i].overall_confidence]), n),
         xactimate_ready |-> n >= 2]

(* generate_job_summary lines 331-372, for a non-empty list of assessments *)
JobSummaryOf(job_id, assessments) ==
    LET n == Len(assessments)
        seen == UNION {DOMAIN DamageOf(assessments[i]) : i \in 1..n}
        cats == UNION {DOMAIN MeasurementsOf(assessments[i]) : i \in 1..n}
    IN  [job_id |-> job_id,
         assessment_count |-> n,
         damage_summary |->
            [t \in seen |-> DamageSummaryEntry(DetailsList(assessments, t))],
         xactimate_summary |->
            [c \in cats |-> MeasurementList(assessments, c)],
         overall_severity |->
            Round2(SumSeq([i \in 1..n |-> assessments[i].overall_severity]), n),
         overall_confidence |->
            Round2(SumSeq([i \in 1..n |-> assessments[i].overall_confidence]), n),
         xactimate_ready |-> TRUE]

-----------------------------------------------------------------------------
(* Claim Formatter: xactimate_integration.py *)

Dollar == 100000

RoofUnitPrice == 450000
SidingUnitPrice == 375000
StructuralUnitPrice == 75000000
WaterBasePrice == 250000
DebrisUnitPrice == 4500000
TaxRatePct == 7

(* x * num / den without overflowing the intermediate product *)
MulFrac(x, num, den) == (x \div den) * num + ((x % den) * num) \div den

Upper(component) ==
    CASE component = "wall" -> "WALL"
      [] component = "ceiling" -> "CEILING"
      [] component = "floor" -> "FLOOR"
      [] component = "beam" -> "BEAM"
      [] component = "column" -> "COLUMN"
      [] OTHER -> component

(* RoofItems with the line total priced at the siding rate *)
RoofItems_sidingRate(xactimate_summary) ==
    IF "roof" \in DOMAIN xactimate_summary
    THEN LET roof_data == xactimate_summary["roof"][1]
         IN  <<[category |-> "Roofing",
                item_id |-> <<"RFG-ASPH-RPL">>,
                quantity |-> Get(roof_data, "area_sqft", 0),
                unit |-> "SQFT",
                unit_price |-> RoofUnitPrice,
                total |-> Get(roof_data, "area_sqft", 0) * SidingUnitPrice]>>
    ELSE <<>>

(* lines 176-188 *)
RoofItems(xactimate_summary) ==
    IF "roof" \in DOMAIN xactimate_summary
    THEN LET roof_data == xactimate_summary["roof"][1]
         IN  <<[category |-> "Roofing",
                item_id |-> <<"RFG-ASPH-RPL">>,
                quantity |-> Get(roof_data, "area_sqft", 0),
                unit |-> "SQFT",
                unit_price |-> RoofUnitPrice,
                total |-> Get(roof_data, "area_sqft", 0) * RoofUnitPrice]>>
    ELSE <<>>

(* SidingItems pricing the last block of the list *)
SidingItems_lastBlock(xactimate_summary) ==
    IF "siding" \in DOMAIN xactimate_summary
    THEN LET siding_data ==
                xactimate_summary["siding"][Len(xactimate_summary["siding"])]
         IN  <<[category |-> "Exterior",
                item_id |-> <<"EXT-SDNG-RPL">>,
                quantity |-> Get(siding_data, "area_sqft", 0),
                unit |-> "SQFT",
                unit_price |-> SidingUnitPrice,
                total |-> Get(siding_data, "area_sqft", 0) * SidingUnitPrice]>>
    ELSE <<>>

(* lines 191-202 *)
SidingItems(xactimate_summary) ==
    IF "siding" \in DOMAIN xactimate_summary
    THEN LET siding_data == xactimate_summary["siding"][1]
         IN  <<[category |-> "Exterior",
                item_id |-> <<"EXT-SDNG-RPL">>,
                quantity |-> Get(siding_data, "area_sqft", 0),
                unit |-> "SQFT",
                unit_price |-> SidingUnitPrice,
                total |-> Get(siding_data, "area_sqft", 0) * SidingUnitPrice]>>
    ELSE <<>>

(* StructuralItems with one line item for the whole component list *)
StructuralItems_single(xactimate_summary) ==
    IF "structural" \in DOMAIN xactimate_summary
    THEN LET structural_data == xactimate_summary["structural"][1]
             components == Get(structural_data, "affected_components", <<>>)
         IN  <<[category |-> "Structural",
                item_id |-> <<"STR-", "ALL", "-RPR">>,
                quantity |-> 1,
                unit |-> "EA",
                unit_price |-> StructuralUnitPrice,
                total |-> StructuralUnitPrice]>>
    ELSE <<>>

(* lines 205-220 *)
StructuralItems(xactimate_summary) ==
    IF "structural" \in DOMAIN xactimate_summary
    THEN LET structural_data == xactimate_summary["structural"][1]
             components == Get(structural_data, "affected_components", <<>>)
         IN  [i \in 1..Len(components) |->
                [category |-> "Structural",
                 item_id |-> <<"STR-", Upper(components[i]), "-RPR">>,
                 quantity |-> 1,
                 unit |-> "EA",
                 unit_price |-> StructuralUnitPrice,
                 total |-> StructuralUnitPrice]]
    ELSE <<>>

(* WaterItems with the water category left out of the price *)
WaterItems_flat(xactimate_summary) ==
    IF "water" \in DOMAIN xactimate_summary
    THEN LET water_data == xactimate_summary["water"][1]
             category == Get(water_data, "category", 1)
         IN  <<[category |-> "Water Damage",
                item_id |-> <<"WTR-CAT", category, "-MIT">>,
                quantity |-> Get(water_data, "affected_area_sqft", 0),
                unit |-> "SQFT",
                unit_price |-> WaterBasePrice,
                total |-> Get(water_data, "affected_area_sqft", 0)
                              * WaterBasePrice]>>
    ELSE <<>>

(* lines 223-236 *)
WaterItems(xactimate_summary) ==
    IF "water" \in DOMAIN xactimate_summary
    THEN LET water_data == xactimate_summary["water"][1]
             category == Get(water_data, "category", 1)
         IN  <<[category |-> "Water Damage",
                item_id |-> <<"WTR-CAT", category, "-MIT">>,
                quantity |-> Get(water_data, "affected_area_sqft", 0),
                unit |-> "SQFT",
                unit_price |-> WaterBasePrice * category,
                total |-> Get(water_data, "affected_area_sqft", 0)
                              * WaterBasePrice * category]>>
    ELSE <<>>

(* lines 239-251 *)
DebrisItems(xactimate_summary) ==
    IF "debris" \in DOMAIN xactimate_summary
    THEN LET debris_data == xactimate_summary["debris"][1]
         IN  <<[category |-> "Cleanup",
                item_id |-> <<"CLN-DBRS-RMV">>,
                quantity |-> Get(debris_data, "volume_cubic_yards", 0),
                unit |-> "CUYD",
                unit_price |-> DebrisUnitPrice,
                total |-> Get(debris_data, "volume_cubic_yards", 0)
                              * DebrisUnitPrice]>>
    ELSE <<>>

(* lines 173-251 *)
LineItems(xactimate_summary) ==
    RoofItems(xactimate_summary) \o SidingItems(xactimate_summary)
        \o StructuralItems(xactimate_summary) \o WaterItems(xactimate_summary)
        \o DebrisItems(xactimate_summary)

(* Totals with the tax left out of the claim total *)
Totals_noTax(line_items) ==
    LET subtotal == SumSeq([i \in 1..Len(line_items) |-> line_items[i].total])
        tax == MulFrac(subtotal, TaxRatePct, 100)
    IN  [subtotal |-> subtotal, tax_rate |-> TaxRatePct, tax |-> tax,
         total |-> subtotal]

(* lines 254-257 and 277-282 *)
Totals(line_items) ==
    LET subtotal == SumSeq([i \in 1..Len(line_items) |-> line_items[i].total])
        tax == MulFrac(subtotal, TaxRatePct, 100)
    IN  [subtotal |-> subtotal, tax_rate |-> TaxRatePct, tax |-> tax,
         total |-> subtotal + tax]

DayOfMonth(t) == ((StartDay - 1 + t \div TicksPerDay) % DaysInMonth) + 1

(* line 272: datetime.replace(day=day - 3) raises ValueError on the first *)
(* three days of a month.                                                 *)
FormatRaises(t) == DayOfMonth(t) - DateOfLossBack < 1

(* format_for_xactimate lines 158-286 *)
format_for_xactimate(job_data, id) ==
    LET summary == job_data.summary
        damage_summary == Get(summary, "damage_summary", <<>>)
        xactimate_summary == Get(summary, "xactimate_summary", <<>>)
        line_items == LineItems(xactimate_summary)
    IN  [claim_id |-> id,
         job_id |-> job_data.job_id,
         damage_info |->
            [overall_severity |-> Get(summary, "overall_severity", 5000),
             damage_types |-> DOMAIN damage_summary],
         line_items |-> line_items,
         totals |-> Totals(line_items),
         status |-> "Ready for Submission"]

(* get_ready_jobs without the existing-claim check of lines 83-84 *)
get_ready_jobs_unguarded ==
    {job_id \in Jobs :
        /\ summaries[job_id] \notin {None, Corrupt}
        /\ Get(summaries[job_id], "xactimate_ready", FALSE)}

(* get_ready_jobs lines 69-91; the try of lines 76-88 skips a summary   *)
(* that cannot be parsed.                                                 *)
get_ready_jobs ==
    {job_id \in Jobs :
        /\ summaries[job_id] \notin {None, Corrupt}
        /\ Get(summaries[job_id], "xactimate_ready", FALSE)
        /\ claims[job_id] = None}

(* load_job_data lines 103-139; the assessments it also loads are not     *)
(* used by the formatter.                                                 *)
load_job_data(job_id) ==
    IF summaries[job_id] \in {None, Corrupt} THEN None
    ELSE [job_id |-> job_id, summary |-> summaries[job_id]]

-----------------------------------------------------------------------------
(* Submission Tracker: xactimate_integration.py *)

Absent == -1

XactimateIds == {10000}
EstDaysChoices == {d \in MinEstDays..TopEstDays : d <= MaxEstDays}

(* lines 323-328 *)
SubmitFailure(claim_data) ==
    [success |-> FALSE, claim_id |-> claim_data.claim_id,
     job_id |-> claim_data.job_id]

(* lines 331-340 *)
SubmissionResult(claim_data, xm, days, t) ==
    [success |-> TRUE,
     claim_id |-> claim_data.claim_id,
     job_id |-> claim_data.job_id,
     xactimate_id |-> xm,
     submission_time |-> t,
     estimated_payout |-> claim_data.totals.total,
     status |-> "Submitted",
     estimated_processing_days |-> days,
     payout_amount |-> Absent,
     approval_date |-> Absent]

(* line 434: (now - submission_time).days *)
days_since_submission(t, submission_time) ==
    (t - submission_time) \div TicksPerDay

(* ProcessingElapsed with a strict comparison *)
ProcessingElapsed_strict(result, t) ==
    days_since_submission(t, result.submission_time)
        > result.estimated_processing_days

(* line 437 *)
ProcessingElapsed(result, t) ==
    days_since_submission(t, result.submission_time)
        >= result.estimated_processing_days

(* ApprovedResult that also restarts the processing period *)
ApprovedResult_restarted(result, t) ==
    [result EXCEPT !.status = "Approved",
                   !.payout_amount = result.estimated_payout,
                   !.approval_date = t,
                   !.submission_time = t]

(* lines 438-440 *)
ApprovedResult(result, t) ==
    [result EXCEPT !.status = "Approved",
                   !.payout_amount = result.estimated_payout,
                   !.approval_date = t]

-----------------------------------------------------------------------------
(* Payment Calculator: payment_processing.py *)

PaymentPct == 70

(* get_approved_claims without the existing-payment check of lines 82-83 *)
get_approved_claims_unguarded ==
    {[result |-> results[f], claim |-> claims[results[f].job_id]] :
        f \in {g \in Jobs :
                /\ results[g] \notin {None, Corrupt}
                /\ Get(results[g], "status", NullStr) = "Approved"
                /\ "job_id" \in DOMAIN results[g]
                /\ claims[results[g].job_id] \notin {None, Corrupt}}}

(* get_approved_claims lines 69-100.  The try of lines 73-97 skips a     *)
(* result or claim file that cannot be parsed; a result without job_id   *)
(* names the files None_payment.json and None_claim.json, and is left    *)
(* out because the latter does not exist.                                 *)
get_approved_claims ==
    {[result |-> results[f], claim |-> claims[results[f].job_id]] :
        f \in {g \in Jobs :
                /\ results[g] \notin {None, Corrupt}
                /\ Get(results[g], "status", NullStr) = "Approved"
                /\ "job_id" \in DOMAIN results[g]
                /\ payments[results[g].job_id] = None
                /\ claims[results[g].job_id] \notin {None, Corrupt}}}

(* calculate_contractor_payment taking the share of the subtotal *)
calculate_contractor_payment_subtotal(claim_data) ==
    LET total_amount == Get(Get(claim_data, "totals", <<>>), "subtotal", 0)
    IN  MulFrac(total_amount, PaymentPct, 100)

(* calculate_contractor_payment lines 114-119 *)
calculate_contractor_payment(claim_data) ==
    LET total_amount == Get(Get(claim_data, "totals", <<>>), "total", 0)
    IN  MulFrac(total_amount, PaymentPct, 100)

(* process_payment lines 131-163 *)
PaymentRecord(claim_info, id, t) ==
    [payment_id |-> id,
     job_id |-> claim_info.result.job_id,
     claim_id |-> claim_info.result.claim_id,
     xactimate_id |-> claim_info.result.xactimate_id,
     contractor_id |-> Get(claim_info.claim, "contractor_id", "unknown"),
     payment_amount |-> calculate_contractor_payment(claim_info.claim),
     total_claim_amount |->
        Get(Get(claim_info.claim, "totals", <<>>), "total", 0),
     payment_percentage |-> PaymentPct,
     payment_date |-> t,
     payment_method |-> "Direct Deposit",
     status |-> "Processed"]

(* Payment reports and notifications: payment_processing.py lines 230-336 *)

ReportLookback == 30

(* strftime('%Y-%m-%d') of a timestamp: the calendar day, counted from    *)
(* the day of tick 0                                                      *)
DayIndex(t) == t \div TicksPerDay

(* lines 242-245: the defaults of the two date arguments *)
DefaultStart(t) == DayIndex(t) - ReportLookback
DefaultEnd(t) == DayIndex(t)

(* lines 247-248: <date>T00:00:00 and <date>T23:59:59 as timestamps *)
start_datetime(start_date) == start_date * TicksPerDay
end_datetime(end_date) == end_date * TicksPerDay + (TicksPerDay - 1)

(* File names of output_dir, as the pieces they are formatted from *)
PaymentFileName(job_id) == <<job_id, "_payment.json">>
NotificationFileName(job_id) == <<job_id, "_notification.json">>
ReportFileName(start_date, end_date) ==
    <<"payment_report_", start_date, "_to_", end_date, ".json">>

(* every file name above ends in .json; only a payment file name ends in *)
(* _payment.json                                                          *)
EndsWithPaymentJson(filename) == filename[Len(filename)] = "_payment.json"

(* os.listdir(self.output_dir), line 254, with the content of each file *)
OutputDirFiles ==
    {[name |-> PaymentFileName(j), data |-> payments[j]] :
        j \in {k \in Jobs : payments[k] # None}}
    \cup {[name |-> NotificationFileName(j), data |-> notifications[j]] :
        j \in {k \in Jobs : notifications[k] # None}}
    \cup {[name |-> ReportFileName(r.start_date, r.end_date), data |-> r] :
        r \in payment_reports}

(* in_date_range with the end day left out *)
in_date_range_openEnd(payment_record, start_date, end_date) ==
    /\ payment_record # Corrupt
    /\ "payment_date" \in DOMAIN payment_record
    /\ start_datetime(start_date) <= payment_record.payment_date
    /\ payment_record.payment_date < start_datetime(end_date)

(* lines 258-268: a payment file that cannot be parsed, or whose         *)
(* payment_date is missing (fromisoformat('') raises), is logged and     *)
(* left out; line 264 tests the others                                    *)
in_date_range(payment_record, start_date, end_date) ==
    /\ payment_record # Corrupt
    /\ "payment_date" \in DOMAIN payment_record
    /\ start_datetime(start_date) <= payment_record.payment_date
    /\ payment_record.payment_date <= end_datetime(end_date)

(* a / b in Python: the exact quotient, ZeroDivisionError when b = 0 *)
Divide(a, b) == [num |-> a, den |-> b]
DivRaises(q) == q.den = 0

(* average_payment dividing without the zero check *)
average_payment_unguarded(total_amount, total_payments) ==
    Divide(total_amount, total_payments)

(* line 282 *)
average_payment(total_amount, total_payments) ==
    IF total_payments > 0 THEN Divide(total_amount, total_payments)
    ELSE Divide(0, 1)

(* lines 253-284.  payment_records is kept as a set: the list order, that *)
(* of os.listdir, does not enter the totals.                              *)
PaymentReport(start_date, end_date) ==
    LET payment_records ==
            {f.data : f \in {g \in OutputDirFiles :
                        /\ EndsWithPaymentJson(g.name)
                        /\ in_date_range(g.data, start_date, end_date)}}
        total_payments == Cardinality(payment_records)
        total_amount == SumOver(payment_records,
            [r \in payment_records |-> Get(r, "payment_amount", 0)])
        total_claim_amount == SumOver(payment_records,
            [r \in payment_records |-> Get(r, "total_claim_amount", 0)])
    IN  [start_date |-> start_date,
         end_date |-> end_date,
         total_payments |-> total_payments,
         total_amount |-> total_amount,
         total_claim_amount |-> total_claim_amount,
         average_payment |-> average_payment(total_amount, total_payments),
         payment_records |-> payment_records]

(* lines 319-324 *)
Notification(payment_record) ==
    [to |-> "contractor@example.com",
     job_id |-> payment_record.job_id,
     payment_amount |-> payment_record.payment_amount,
     payment_date |-> payment_record.payment_date]

-----------------------------------------------------------------------------
(* Initial states.  The photo intake has stored photos, none assessed.     *)
(* The upload endpoint writes no processing_status key, and stores a JSON  *)
(* null damage_type when the form field is missing.                        *)

PhotoJob == <<1, 1, 1, 2>>
PhotoHint == <<"Roof", "Water", NullStr, "Unknown">>

(* the metadata record the upload endpoint stores for a photo *)
UploadedMetadata(p, job_id, damage_type) ==
    [photo_id |-> p,
     job_id |-> job_id,
     contractor_id |-> "contractor-1",
     damage_type |-> damage_type,
     processing_status |-> "absent",
     assessment_id |-> Absent,
     overall_severity |-> Absent,
     overall_confidence |-> Absent,
     detected_damage_types |-> {}]

InitialMetadata(p) == UploadedMetadata(p, PhotoJob[p], PhotoHint[p])

(* AdsCampaignManager._load_campaigns lines 61-62: no campaigns file *)
NoCampaigns == [r \in {} |-> None]

NoCall == [op |-> "none", arg |-> 0, raised |-> FALSE, val |-> None]

(* the stores before any stage has run, holding the photos P, in a run   *)
(* where up to faults record writes fail                                  *)
FreshStores(P, faults) ==
    /\ now = 0
    /\ next_uuid = 1
    /\ faults_left = faults
    /\ metadata = [p \in P |-> InitialMetadata(p)]
    /\ photo_files = P
    /\ active_campaigns = NoCampaigns
    /\ reports = [j \in Jobs |-> {}]
    /\ summaries = [j \in Jobs |-> None]
    /\ claims = [j \in Jobs |-> None]
    /\ results = [j \in Jobs |-> None]
    /\ payments = [j \in Jobs |-> None]
    /\ pay_count = [j \in Jobs |-> 0]
    /\ held = {}
    /\ payment_reports = {}
    /\ notifications = [j \in Jobs |-> None]
    /\ format_log = <<>>
    /\ ret = NoCall

(* one job with three photos, every record write succeeds *)
Init == FreshStores({1, 2, 3}, 0)

(* two jobs, four photos, record writes may fail *)
InitAssess == FreshStores({1, 2, 3, 4}, MaxFailures)

(* Outcomes of the random draws of one analyze_photo call *)
AllTypes == Range(damage_types)
NoLevels == [t \in AllTypes |-> 0]

PipeRnd ==
    {[picks |-> <<damage_types[i]>>, lvl |-> NoLevels] : i \in 1..PipePool}

(* the draws of a direct analyze_photo call: 1..MaxPicks picks, and for  *)
(* every detected category one of the sample points                      *)
Levels == 0..(Len(SeveritySamples) - 1)
AnalyzePicks ==
    UNION {[1..n -> {damage_types[i] : i \in 1..PickPool}] : n \in 1..MaxPicks}
AnalyzeRnd(reported_damage_type) ==
    UNION {{[picks |-> picks, lvl |-> lvl] :
                lvl \in [Range(DetectedDamages(reported_damage_type, picks))
                            -> Levels]} :
            picks \in AnalyzePicks}

(* one uploaded photo with any of these hints, not yet assessed; every   *)
(* write succeeds                                                         *)
AnalyzeHints ==
    {"Roof", "Water", "siding", "structural", "debris", "Unknown", NullStr}

InitAnalyze ==
    /\ now = 0
    /\ next_uuid = 1
    /\ faults_left = 0
    /\ \E hint \in AnalyzeHints :
            metadata = [p \in {1} |-> UploadedMetadata(p, 1, hint)]
    /\ photo_files = {1}
    /\ active_campaigns = NoCampaigns
    /\ reports = [j \in Jobs |-> {}]
    /\ summaries = [j \in Jobs |-> None]
    /\ claims = [j \in Jobs |-> None]
    /\ results = [j \in Jobs |-> None]
    /\ payments = [j \in Jobs |-> None]
    /\ pay_count = [j \in Jobs |-> 0]
    /\ held = {}
    /\ payment_reports = {}
    /\ notifications = [j \in Jobs |-> None]
    /\ format_log = <<>>
    /\ ret = NoCall

(* the assessments analyze_photo can produce for a photo *)
PossibleAssessments(m, id) ==
    {AssessmentOf(m, rnd, id) : rnd \in AnalyzeRnd(m.damage_type)}

(* job 1 after its photos 1 and 2 were assessed, with every outcome of   *)
(* the random draws, and not yet summarised                               *)
InitAssessed ==
    /\ now = 0
    /\ next_uuid = 3
    /\ faults_left = 0
    /\ photo_files = {1, 2}
    /\ active_campaigns = NoCampaigns
    /\ \E a1 \in PossibleAssessments(InitialMetadata(1), 1),
          a2 \in PossibleAssessments(InitialMetadata(2), 2) :
        LET a == <<a1, a2>>
        IN  /\ metadata = [p \in {1, 2} |->
                    UpdatedMetadata(InitialMetadata(p), a[p])]
            /\ reports = [j \in Jobs |-> IF j = 1 THEN Range(a) ELSE {}]
    /\ summaries = [j \in Jobs |-> None]
    /\ claims = [j \in Jobs |-> None]
    /\ results = [j \in Jobs |-> None]
    /\ payments = [j \in Jobs |-> None]
    /\ pay_count = [j \in Jobs |-> 0]
    /\ held = {}
    /\ payment_reports = {}
    /\ notifications = [j \in Jobs |-> None]
    /\ format_log = <<>>
    /\ ret = NoCall

(* The stores after one failure-free run of process_pending_photos and of *)
(* generate_job_summary for each job, over two jobs and four photos.      *)
SeedRnd == [picks |-> <<"roof">>, lvl |-> NoLevels]
SeedPhotos == {1, 2, 4}
SeedAssessment(p) ==
    AssessmentOf(InitialMetadata(p), SeedRnd, 1 + Cardinality({q \in SeedPhotos : q < p}))
SeedReports(j) == {SeedAssessment(p) : p \in {q \in SeedPhotos : PhotoJob[q] = j}}

SeededStores(faults) ==
    /\ now = 0
    /\ next_uuid = 1 + Cardinality(SeedPhotos)
    /\ faults_left = faults
    /\ metadata = [p \in {1, 2, 3, 4} |->
            IF p \in SeedPhotos
            THEN UpdatedMetadata(InitialMetadata(p), SeedAssessment(p))
            ELSE InitialMetadata(p)]
    /\ photo_files = {1, 2, 3, 4}
    /\ active_campaigns = NoCampaigns
    /\ reports = [j \in Jobs |-> SeedReports(j)]
    /\ \E o \in [Jobs -> UNION {Orders(SeedReports(j)) : j \in Jobs}] :
            /\ \A j \in Jobs : o[j] \in Orders(SeedReports(j))
            /\ summaries = [j \in Jobs |-> JobSummaryOf(j, o[j])]
    /\ claims = [j \in Jobs |-> None]
    /\ results = [j \in Jobs |-> None]
    /\ payments = [j \in Jobs |-> None]
    /\ pay_count = [j \in Jobs |-> 0]
    /\ held = {}
    /\ payment_reports = {}
    /\ notifications = [j \in Jobs |-> None]
    /\ format_log = <<>>
    /\ ret = NoCall

InitClaims == SeededStores(MaxFailures)

(* the same stores in a run where every record write succeeds *)
InitPure == SeededStores(0)

(* The stores after the seeded jobs in paid went through submission at   *)
(* sub[j], approval after MinEstDays days and payment at that moment.     *)
SeedSubmitTimes == {TicksPerDay, 2 * TicksPerDay}
SeedSummary(j) == JobSummaryOf(j, CHOOSE o \in Orders(SeedReports(j)) : TRUE)
SeedClaim(j, id) ==
    format_for_xactimate([job_id |-> j, summary |-> SeedSummary(j)], id)
SeedResult(j, id, t) ==
    ApprovedResult(
        SubmissionResult(SeedClaim(j, id), CHOOSE xm \in XactimateIds : TRUE,
                         MinEstDays, t),
        t + MinEstDays * TicksPerDay)
SeedPayment(j, id, pid, t) ==
    PaymentRecord([result |-> SeedResult(j, id, t), claim |-> SeedClaim(j, id)],
                  pid, t + MinEstDays * TicksPerDay)

(* the days on which a seeded payment can have been made *)
ReportDays == {DayIndex(t) + MinEstDays : t \in SeedSubmitTimes}
DateArgs == {None} \cup {[day |-> d] : d \in ReportDays}

InitReport ==
    /\ now = (2 + MinEstDays) * TicksPerDay
    /\ faults_left = MaxFailures
    /\ metadata = [p \in {1, 2, 3, 4} |->
            IF p \in SeedPhotos
            THEN UpdatedMetadata(InitialMetadata(p), SeedAssessment(p))
            ELSE InitialMetadata(p)]
    /\ photo_files = {1, 2, 3, 4}
    /\ active_campaigns = NoCampaigns
    /\ reports = [j \in Jobs |-> SeedReports(j)]
    /\ summaries = [j \in Jobs |-> SeedSummary(j)]
    /\ \E paid \in SUBSET Jobs, sub \in [Jobs -> SeedSubmitTimes] :
        LET first == 1 + Cardinality(SeedPhotos)
            id == [j \in paid |-> first + Before(paid, j)]
            pid == [j \in paid |-> first + Cardinality(paid) + Before(paid, j)]
        IN  /\ \A j \in Jobs \ paid : sub[j] = TicksPerDay
            /\ next_uuid = first + 2 * Cardinality(paid)
            /\ claims = [j \in Jobs |->
                    IF j \in paid THEN SeedClaim(j, id[j]) ELSE None]
            /\ results = [j \in Jobs |->
                    IF j \in paid THEN SeedResult(j, id[j], sub[j]) ELSE None]
            /\ payments = [j \in Jobs |->
                    IF j \in paid THEN SeedPayment(j, id[j], pid[j], sub[j])
                    ELSE None]
            /\ pay_count = [j \in Jobs |-> IF j \in paid THEN 1 ELSE 0]
    /\ held = {}
    /\ payment_reports = {}
    /\ notifications = [j \in Jobs |-> None]
    /\ format_log = <<>>
    /\ ret = NoCall

(* Job 1 after a first photo was assessed and summarised, with a second  *)
(* photo uploaded and pending; job 2 assessed, summarised, submitted and *)
(* approved, not yet paid.  Record writes may fail; one more uuid is     *)
(* drawn in the run.                                                      *)
InitFaults ==
    /\ now = (1 + MinEstDays) * TicksPerDay
    /\ next_uuid = MaxUuid
    /\ faults_left = MaxFailures
    /\ metadata = [p \in {1, 2, 4} |->
            IF p = 2 THEN UploadedMetadata(2, 1, "Roof")
            ELSE UpdatedMetadata(InitialMetadata(p), SeedAssessment(p))]
    /\ photo_files = {1, 2, 4}
    /\ active_campaigns = NoCampaigns
    /\ reports = [j \in Jobs |->
            IF j = 1 THEN {SeedAssessment(1)} ELSE {SeedAssessment(4)}]
    /\ summaries = [j \in Jobs |->
            IF j = 1 THEN JobSummaryOf(1, <<SeedAssessment(1)>>)
            ELSE SeedSummary(2)]
    /\ claims = [j \in Jobs |-> IF j = 2 THEN SeedClaim(2, 4) ELSE None]
    /\ results = [j \in Jobs |->
            IF j = 2 THEN SeedResult(2, 4, TicksPerDay) ELSE None]
    /\ payments = [j \in Jobs |-> None]
    /\ pay_count = [j \in Jobs |-> 0]
    /\ held = {}
    /\ payment_reports = {}
    /\ notifications = [j \in Jobs |-> None]
    /\ format_log = <<>>
    /\ ret = NoCall

(* Stores in which one persisted record is malformed: both jobs are      *)
(* assessed and summarised, each is at one of the later stages, and one  *)
(* metadata, assessment, summary, result or payment file (or none) is    *)
(* either unparsable or lacks a field its readers use.                    *)
Stages == {"summarised", "approved", "paid"}

Without(r, f) == [g \in DOMAIN r \ {f} |-> r[g]]

(* the two malformed versions of record r, f being the field left out *)
MalformedOf(r, f) == {Corrupt, Without(r, f)}

SeedMetadata(p) ==
    IF p \in SeedPhotos
    THEN UpdatedMetadata(InitialMetadata(p), SeedAssessment(p))
    ELSE InitialMetadata(p)

StageClaim(j, stage) ==
    IF stage = "summarised" THEN None ELSE SeedClaim(j, 3 + j)
StageResult(j, stage) ==
    IF stage = "summarised" THEN None ELSE SeedResult(j, 3 + j, TicksPerDay)
StagePayment(j, stage) ==
    IF stage = "paid" THEN SeedPayment(j, 3 + j, 5 + j, TicksPerDay) ELSE None

(* f with the value at x replaced by v *)
Damaged(f, x, v) == [y \in DOMAIN f |-> IF y = x THEN v ELSE f[y]]

InitMalformed ==
    /\ now = (2 + MinEstDays) * TicksPerDay
    /\ next_uuid = 8
    /\ faults_left = 0
    /\ photo_files = {1, 2, 3, 4}
    /\ active_campaigns = NoCampaigns
    /\ pay_count = [j \in Jobs |-> 0]
    /\ held = {}
    /\ payment_reports = {}
    /\ notifications = [j \in Jobs |-> None]
    /\ format_log = <<>>
    /\ ret = NoCall
    /\ \E stage \in [Jobs -> Stages] :
        LET m0 == [p \in {1, 2, 3, 4} |-> SeedMetadata(p)]
            r0 == [j \in Jobs |-> SeedReports(j)]
            s0 == [j \in Jobs |-> SeedSummary(j)]
            c0 == [j \in Jobs |-> StageClaim(j, stage[j])]
            x0 == [j \in Jobs |-> StageResult(j, stage[j])]
            p0 == [j \in Jobs |-> StagePayment(j, stage[j])]
        IN  /\ claims = c0
            /\ \/ /\ metadata = m0 /\ reports = r0 /\ summaries = s0
                   /\ results = x0 /\ payments = p0
               \/ /\ \E p \in DOMAIN m0 :
                        \E bad \in MalformedOf(m0[p], "job_id") :
                            metadata = Damaged(m0, p, bad)
                   /\ reports = r0 /\ summaries = s0
                   /\ results = x0 /\ payments = p0
               \/ /\ \E j \in Jobs : \E a \in r0[j] :
                        \E bad \in MalformedOf(a, "overall_severity") :
                            reports = Damaged(r0, j, (r0[j] \ {a}) \cup {bad})
                   /\ metadata = m0 /\ summaries = s0
                   /\ results = x0 /\ payments = p0
               \/ /\ \E j \in Jobs :
                        \E bad \in MalformedOf(s0[j], "xactimate_ready") :
                            summaries = Damaged(s0, j, bad)
                   /\ metadata = m0 /\ reports = r0
                   /\ results = x0 /\ payments = p0
               \/ /\ \E j \in Jobs :
                        /\ x0[j] # None
                        /\ \E bad \in MalformedOf(x0[j], "status") :
                            results = Damaged(x0, j, bad)
                   /\ metadata = m0 /\ reports = r0 /\ summaries = s0
                   /\ payments = p0
               \/ /\ \E j \in Jobs :
                        /\ p0[j] # None
                        /\ \E bad \in MalformedOf(p0[j], "payment_date") :
                            payments = Damaged(p0, j, bad)
                   /\ metadata = m0 /\ reports = r0 /\ summaries = s0
                   /\ results = x0

(* Both jobs assessed and summarised, each at one of the later stages;   *)
(* every record write succeeds and one more uuid is drawn in the run.    *)
InitFlow ==
    /\ now = (2 + MinEstDays) * TicksPerDay
    /\ next_uuid = MaxUuid
    /\ faults_left = 0
    /\ metadata = [p \in {1, 2, 3, 4} |-> SeedMetadata(p)]
    /\ photo_files = {1, 2, 3, 4}
    /\ active_campaigns = NoCampaigns
    /\ reports = [j \in Jobs |-> SeedReports(j)]
    /\ summaries = [j \in Jobs |-> SeedSummary(j)]
    /\ \E stage \in [Jobs -> Stages] :
        /\ claims = [j \in Jobs |-> StageClaim(j, stage[j])]
        /\ results = [j \in Jobs |-> StageResult(j, stage[j])]
        /\ payments = [j \in Jobs |-> StagePayment(j, stage[j])]
        /\ pay_count = [j \in Jobs |-> IF stage[j] = "paid" THEN 1 ELSE 0]
    /\ held = {}
    /\ payment_reports = {}
    /\ notifications = [j \in Jobs |-> None]
    /\ format_log = <<>>
    /\ ret = NoCall

(* A campaign manager constructed without a campaigns file; the regions *)
(* handed to it carry one of two ids and any severity.                    *)
RegionIds == {"region-1", "region-2"}
Severities ==
    {"Minor", "Moderate", "Severe", "Extreme", "Unknown", NullStr}
Regions == [id : RegionIds, severity : Severities]
CampaignStatuses == {"ENABLED", "PAUSED", "REMOVED"}

InitCampaigns == FreshStores({}, 0)

(* The photo record store in any condition: no metadata directory at    *)
(* all, or photos 1, 2 and 4 each with its status absent (as uploaded),  *)
(* pending or completed, and with or without a binary in the upload      *)
(* directory of its job.  Every record write succeeds.                    *)
PendingPhotos == {1, 2, 4}
PhotoStatuses == {"absent", "pending", "completed"}

StatusMetadata(p, status) ==
    IF status = "completed"
    THEN UpdatedMetadata(InitialMetadata(p), SeedAssessment(p))
    ELSE [InitialMetadata(p) EXCEPT !.processing_status = status]

InitPending ==
    /\ now = 0
    /\ next_uuid = MaxUuid + 1 - Cardinality(PendingPhotos)
    /\ faults_left = 0
    /\ \/ /\ metadata = [p \in {} |-> None]
          /\ photo_files \in SUBSET PendingPhotos
          /\ active_campaigns = NoCampaigns
          /\ reports = [j \in Jobs |-> {}]
       \/ \E status \in [PendingPhotos -> PhotoStatuses] :
            /\ metadata = [p \in PendingPhotos |->
                                StatusMetadata(p, status[p])]
            /\ photo_files \in SUBSET PendingPhotos
            /\ active_campaigns = NoCampaigns
            /\ reports = [j \in Jobs |->
                    {SeedAssessment(p) :
                        p \in {q \in PendingPhotos :
                                /\ PhotoJob[q] = j
                                /\ status[q] = "completed"}}]
    /\ summaries = [j \in Jobs |-> None]
    /\ claims = [j \in Jobs |-> None]
    /\ results = [j \in Jobs |-> None]
    /\ payments = [j \in Jobs |-> None]
    /\ pay_count = [j \in Jobs |-> 0]
    /\ held = {}
    /\ payment_reports = {}
    /\ notifications = [j \in Jobs |-> None]
    /\ format_log = <<>>
    /\ ret = NoCall

(* Two assessed jobs, each at any stage of its way: assessed only,       *)
(* summarised, submitted and due for approval, approved, or paid.  Every *)
(* record write succeeds and two more uuids are drawn in the run.        *)
ParallelStages == {"assessed", "summarised", "submitted", "approved", "paid"}

InitParallel ==
    /\ now = (2 + MinEstDays) * TicksPerDay
    /\ next_uuid = MaxUuid - 1
    /\ faults_left = 0
    /\ metadata = [p \in {1, 2, 3, 4} |-> SeedMetadata(p)]
    /\ photo_files = {1, 2, 3, 4}
    /\ active_campaigns = NoCampaigns
    /\ reports = [j \in Jobs |-> SeedReports(j)]
    /\ \E stage \in [Jobs -> ParallelStages] :
        /\ summaries = [j \in Jobs |->
                IF stage[j] = "assessed" THEN None ELSE SeedSummary(j)]
        /\ claims = [j \in Jobs |->
                IF stage[j] \in {"assessed", "summarised"} THEN None
                ELSE SeedClaim(j, 3 + j)]
        /\ results = [j \in Jobs |->
                IF stage[j] \in {"assessed", "summarised"} THEN None
                ELSE IF stage[j] = "submitted"
                THEN SubmissionResult(SeedClaim(j, 3 + j),
                                      CHOOSE xm \in XactimateIds : TRUE,
                                      MinEstDays, TicksPerDay)
                ELSE SeedResult(j, 3 + j, TicksPerDay)]
        /\ payments = [j \in Jobs |-> StagePayment(j, stage[j])]
        /\ pay_count = [j \in Jobs |-> IF stage[j] = "paid" THEN 1 ELSE 0]
    /\ held = {}
    /\ payment_reports = {}
    /\ notifications = [j \in Jobs |-> None]
    /\ format_log = <<>>
    /\ ret = NoCall

(* Work for every stage: job 1 has an assessed photo, a summary and a    *)
(* pending photo, so it is ready for submission; job 2 is submitted and  *)
(* approved, so it is ready for payment.  Every record write succeeds.   *)
OverlapDraws == 6

InitOverlap ==
    /\ now = (1 + MinEstDays) * TicksPerDay
    /\ next_uuid = MaxUuid + 1 - OverlapDraws
    /\ faults_left = 0
    /\ metadata = [p \in {1, 2, 4} |->
            IF p = 2 THEN UploadedMetadata(2, 1, "Roof")
            ELSE UpdatedMetadata(InitialMetadata(p), SeedAssessment(p))]
    /\ photo_files = {1, 2, 4}
    /\ active_campaigns = NoCampaigns
    /\ reports = [j \in Jobs |->
            IF j = 1 THEN {SeedAssessment(1)} ELSE {SeedAssessment(4)}]
    /\ summaries = [j \in Jobs |->
            IF j = 1 THEN JobSummaryOf(1, <<SeedAssessment(1)>>)
            ELSE SeedSummary(2)]
    /\ claims = [j \in Jobs |-> IF j = 2 THEN SeedClaim(2, 2) ELSE None]
    /\ results = [j \in Jobs |->
            IF j = 2 THEN SeedResult(2, 2, TicksPerDay) ELSE None]
    /\ payments = [j \in Jobs |-> None]
    /\ pay_count = [j \in Jobs |-> 0]
    /\ held = {}
    /\ payment_reports = {}
    /\ notifications = [j \in Jobs |-> None]
    /\ format_log = <<>>
    /\ ret = NoCall

(* Inputs of the formatter: for every category either no measurement or   *)
(* a list of 1..MaxBlocks blocks; the stores hold the assessments that     *)
(* carry these blocks and the job summary aggregated from them.           *)
BlockChoices ==
    [roof |-> {RoofBlock(1000), RoofBlock(800)},
     siding |-> {SidingBlock(400)},
     structural |-> {StructuralBlock(<<>>), StructuralBlock(<<"wall">>),
                     StructuralBlock(<<"ceiling", "beam">>)},
     water |-> {WaterBlock(200, 3), WaterBlock(100, 1), WaterBlock(200, 2)},
     debris |-> {DebrisBlock(5)}]

BlockLists(c) ==
    UNION {[1..n -> BlockChoices[c]] : n \in 0..MaxBlocks}

FormatInputs ==
    {[roof |-> r, siding |-> s, structural |-> t, water |-> w, debris |-> d] :
        r \in BlockLists("roof"), s \in BlockLists("siding"),
        t \in BlockLists("structural"), w \in BlockLists("water"),
        d \in BlockLists("debris")}
    \ {[c \in AllTypes |-> <<>>]}

(* The assessment of photo i that carries one measurement block: the    *)
(* upload had no usable hint and the single random pick was category c.  *)
BlockAssessment(c, block, i) ==
    [photo_id |-> i,
     job_id |-> 1,
     assessment_id |-> i,
     damage_assessment |->
        [t \in {c} |-> [severity |-> SeveritySamples[1],
                        confidence |-> ConfidenceSamples[1],
                        area_percentage |-> AreaSamples[1]]],
     xactimate_measurements |-> [t \in {c} |-> block],
     overall_severity |-> SeveritySamples[1],
     overall_confidence |-> ConfidenceSamples[1]]

(* one assessment per block of xs, category by category *)
RECURSIVE InputAssessmentsFrom(_, _, _)
InputAssessmentsFrom(xs, k, i) ==
    IF k > Len(damage_types) THEN <<>>
    ELSE LET c == damage_types[k]
         IN  [b \in 1..Len(xs[c]) |-> BlockAssessment(c, xs[c][b], i + b - 1)]
                \o InputAssessmentsFrom(xs, k + 1, i + Len(xs[c]))

InputAssessments(xs) == InputAssessmentsFrom(xs, 1, 1)

(* the stores of job 1 after the photos behind the inputs were assessed  *)
(* and summarised, at one of the given times                             *)
FormatStores(Inputs, times) ==
    /\ now \in times
    /\ faults_left = 0
    /\ \E xs \in Inputs :
        LET as == InputAssessments(xs)
        IN  /\ next_uuid = Len(as) + 1
            /\ photo_files = 1..Len(as)
            /\ active_campaigns = NoCampaigns
            /\ metadata = [p \in 1..Len(as) |->
                    UpdatedMetadata(UploadedMetadata(p, 1, "Unknown"), as[p])]
            /\ reports = [j \in Jobs |-> IF j = 1 THEN Range(as) ELSE {}]
            /\ summaries = [j \in Jobs |->
                    IF j = 1 THEN JobSummaryOf(1, as) ELSE None]
    /\ claims = [j \in Jobs |-> None]
    /\ results = [j \in Jobs |-> None]
    /\ payments = [j \in Jobs |-> None]
    /\ pay_count = [j \in Jobs |-> 0]
    /\ held = {}
    /\ payment_reports = {}
    /\ notifications = [j \in Jobs |-> None]
    /\ format_log = <<>>
    /\ ret = NoCall

InitFormat == FormatStores(FormatInputs, {0, TicksPerDay})

(* Summaries in which several photos reported the same category: a first *)
(* block, then up to MaxLaterBlocks blocks with other measurements.      *)
LaterBlock ==
    [roof |-> RoofBlock(2500),
     siding |-> SidingBlock(1800),
     structural |-> StructuralBlock(<<"floor", "wall", "column">>),
     water |-> WaterBlock(1000, 2),
     debris |-> DebrisBlock(50)]

RepeatedLists(c) ==
    {<<>>} \cup
    {<<first>> \o [i \in 1..k |-> LaterBlock[c]] :
        first \in BlockChoices[c], k \in 0..MaxLaterBlocks}

RepeatedInputs ==
    {[roof |-> r, siding |-> s, structural |-> t, water |-> w, debris |-> d] :
        r \in RepeatedLists("roof"), s \in RepeatedLists("siding"),
        t \in RepeatedLists("structural"), w \in RepeatedLists("water"),
        d \in RepeatedLists("debris")}
    \ {[c \in AllTypes |-> <<>>]}

InitRepeated == FormatStores(RepeatedInputs, {TicksPerDay})

-----------------------------------------------------------------------------
(* Operations *)

(* the wall clock advances *)
Tick ==
    /\ now < MaxTime
    /\ now' = now + 1
    /\ ret' = [op |-> "tick", arg |-> 0, raised |-> FALSE, val |-> None]
    /\ UNCHANGED <<next_uuid, faults_left, metadata, photo_files, active_campaigns, reports,
                   summaries, claims, results, payments, pay_count, held,
                   payment_reports, notifications, format_log>>

(* process_pending_photos lines 217-232, one whole run.  okA / okM tell    *)
(* whether the assessment write and the metadata write of a photo succeed. *)
ProcessPendingPhotos ==
    LET pending == get_pending_photos
        Q == {p \in pending : ~AnalyzeRaises(metadata[p])}
    IN  /\ next_uuid + Cardinality(Q) - 1 <= MaxUuid
        /\ \E rnd \in [Q -> PipeRnd], okA \in [Q -> BOOLEAN], okM \in [Q -> BOOLEAN] :
            LET a == [p \in Q |-> AssessmentOf(metadata[p], rnd[p], next_uuid + Before(Q, p))]
            IN  /\ CountFalse(okA) + CountFalse(okM) <= faults_left
                /\ faults_left' = faults_left - CountFalse(okA) - CountFalse(okM)
                /\ reports' = [j \in Jobs |->
                        reports[j] \cup {a[p] : p \in {q \in Q : okA[q] /\ a[q].job_id = j}}]
                /\ metadata' = [p \in DOMAIN metadata |->
                        IF p \in Q /\ okM[p] THEN UpdatedMetadata(metadata[p], a[p])
                        ELSE metadata[p]]
                /\ next_uuid' = next_uuid + Cardinality(Q)
                /\ ret' = [op |-> "process_pending_photos", arg |-> 0,
                           raised |-> FALSE, val |-> {a[p].assessment_id : p \in Q}]
        /\ UNCHANGED <<now, photo_files, active_campaigns, summaries, claims, results, payments,
                       pay_count, held,
                   payment_reports, notifications, format_log>>

(* analyze_photo lines 119-208, called for one photo of the pending list; *)
(* okA / okM tell whether _save_assessment and _update_metadata manage   *)
(* to write.                                                              *)
AnalyzePhoto(p) ==
    /\ p \in get_pending_photos
    /\ IF AnalyzeRaises(metadata[p])
       THEN /\ ret' = [op |-> "analyze_photo", arg |-> p, raised |-> TRUE,
                       val |-> None]
            /\ UNCHANGED <<next_uuid, faults_left, metadata, reports>>
       ELSE /\ next_uuid <= MaxUuid
            /\ \E rnd \in AnalyzeRnd(metadata[p].damage_type),
                  okA \in BOOLEAN, okM \in BOOLEAN :
                LET a == AssessmentOf(metadata[p], rnd, next_uuid)
                    failed == (IF okA THEN 0 ELSE 1) + (IF okM THEN 0 ELSE 1)
                IN  /\ failed <= faults_left
                    /\ faults_left' = faults_left - failed
                    /\ reports' = IF okA
                            THEN [reports EXCEPT ![a.job_id] = @ \cup {a}]
                            ELSE reports
                    /\ metadata' = IF okM
                            THEN [metadata EXCEPT ![p] = UpdatedMetadata(@, a)]
                            ELSE metadata
                    /\ next_uuid' = next_uuid + 1
                    /\ ret' = [op |-> "analyze_photo", arg |-> p,
                               raised |-> FALSE, val |-> a]
    /\ UNCHANGED <<now, photo_files, active_campaigns, summaries, claims, results, payments,
                   pay_count, held, payment_reports, notifications,
                   format_log>>

(* generate_job_summary lines 325-384 *)
GenerateJobSummary(job_id) ==
    \E assessments \in get_job_assessments(job_id), ok \in BOOLEAN :
        /\ IF assessments = <<>>
           THEN /\ ok
                /\ ret' = [op |-> "generate_job_summary", arg |-> job_id,
                           raised |-> FALSE, val |-> None]
                /\ UNCHANGED <<summaries, faults_left>>
           ELSE IF SummaryRaises(assessments)
           THEN /\ ok
                /\ ret' = [op |-> "generate_job_summary", arg |-> job_id,
                           raised |-> TRUE, val |-> None]
                /\ UNCHANGED <<summaries, faults_left>>
           ELSE LET job_summary == JobSummaryOf(job_id, assessments)
                IN  /\ ok \/ faults_left > 0
                    /\ summaries' = IF ok THEN [summaries EXCEPT ![job_id] = job_summary]
                                    ELSE summaries
                    /\ faults_left' = IF ok THEN faults_left ELSE faults_left - 1
                    /\ ret' = [op |-> "generate_job_summary", arg |-> job_id,
                               raised |-> FALSE, val |-> job_summary]
        /\ UNCHANGED <<now, next_uuid, metadata, photo_files, active_campaigns, reports, claims,
                       results, payments, pay_count, held,
                   payment_reports, notifications, format_log>>

(* process_all_jobs lines 390-406, one whole run: every ready job goes     *)
(* through process_job = load_job_data, format_for_xactimate,              *)
(* submit_to_xactimate.  okC / okR tell whether the claim write and the    *)
(* result write of a job succeed.  On a day where line 272 raises, every   *)
(* process_job call ends in the except branch of line 402 and the uuid     *)
(* drawn for the discarded claim is never stored.                          *)
ProcessAllJobs ==
    LET ready_jobs == get_ready_jobs
        raises == FormatRaises(now)
        R == IF raises THEN {} ELSE ready_jobs
    IN  /\ next_uuid + Cardinality(R) - 1 <= MaxUuid
        /\ \E okC \in [R -> BOOLEAN], okR \in [R -> BOOLEAN],
              xm \in [R -> XactimateIds], days \in [R -> EstDaysChoices] :
            LET claim == [j \in R |->
                    format_for_xactimate(load_job_data(j), next_uuid + Before(R, j))]
                result == [j \in R |->
                    IF okC[j] THEN SubmissionResult(claim[j], xm[j], days[j], now)
                    ELSE SubmitFailure(claim[j])]
            IN  /\ \A j \in R : ~okC[j] => okR[j]
                /\ CountFalse(okC) + CountFalse(okR) <= faults_left
                /\ faults_left' = faults_left - CountFalse(okC) - CountFalse(okR)
                /\ claims' = [j \in Jobs |->
                        IF j \in R /\ okC[j] THEN claim[j] ELSE claims[j]]
                /\ results' = [j \in Jobs |->
                        IF j \in R /\ okC[j] /\ okR[j] THEN result[j] ELSE results[j]]
                /\ next_uuid' = next_uuid + Cardinality(R)
                /\ ret' = [op |-> "process_all_jobs", arg |-> 0, raised |-> FALSE,
                           val |-> {result[j] : j \in R}]
        /\ UNCHANGED <<now, metadata, photo_files, active_campaigns, reports, summaries, payments,
                       pay_count, held,
                   payment_reports, notifications, format_log>>

(* the part of check_submission_status after line 440: the updated result *)
(* is written back to <job_id>_result.json                                *)
SaveCheckedResult(job_id, result) == [results EXCEPT ![job_id] = result]

(* check_submission_status lines 418-440 *)
CheckSubmissionStatus(job_id) ==
    /\ IF results[job_id] = None
       THEN /\ ret' = [op |-> "check_submission_status", arg |-> job_id,
                       raised |-> FALSE, val |-> None]
            /\ UNCHANGED results
       ELSE LET result == IF ProcessingElapsed(results[job_id], now)
                          THEN ApprovedResult(results[job_id], now)
                          ELSE results[job_id]
            IN  /\ results' = IF ProcessingElapsed(results[job_id], now)
                              THEN SaveCheckedResult(job_id, result)
                              ELSE results
                /\ ret' = [op |-> "check_submission_status", arg |-> job_id,
                           raised |-> FALSE, val |-> result]
    /\ UNCHANGED <<now, next_uuid, faults_left, metadata, photo_files, active_campaigns, reports,
                   summaries, claims, payments, pay_count, held,
                   payment_reports, notifications, format_log>>

(* process_payment lines 131-176 applied to one claim_info; ok tells      *)
(* whether the payment record write succeeds.                             *)
PaymentsAfter(claim_info, id, ok) ==
    IF ok THEN [payments EXCEPT ![claim_info.result.job_id] =
                    PaymentRecord(claim_info, id, now)]
    ELSE payments

(* process_all_payments lines 185-202, one whole run *)
ProcessAllPayments ==
    LET approved_claims == get_approved_claims
        A == {ci.result.job_id : ci \in approved_claims}
        info == [j \in A |-> CHOOSE ci \in approved_claims : ci.result.job_id = j]
    IN  /\ next_uuid + Cardinality(A) - 1 <= MaxUuid
        /\ \E ok \in [A -> BOOLEAN] :
            /\ CountFalse(ok) <= faults_left
            /\ faults_left' = faults_left - CountFalse(ok)
            /\ payments' = [j \in Jobs |->
                    IF j \in A
                    THEN PaymentsAfter(info[j], next_uuid + Before(A, j), ok[j])[j]
                    ELSE payments[j]]
            /\ pay_count' = [j \in Jobs |->
                    IF j \in A /\ ok[j] THEN pay_count[j] + 1 ELSE pay_count[j]]
            /\ next_uuid' = next_uuid + Cardinality(A)
            /\ ret' = [op |-> "process_all_payments", arg |-> 0, raised |-> FALSE,
                       val |-> {j \in A : ok[j]}]
        /\ UNCHANGED <<now, metadata, photo_files, active_campaigns, reports, summaries, claims,
                       results, held,
                   payment_reports, notifications, format_log>>

(* a caller invokes get_approved_claims and keeps the returned list *)
GetApprovedClaims ==
    /\ held' = get_approved_claims
    /\ ret' = [op |-> "get_approved_claims", arg |-> 0, raised |-> FALSE,
               val |-> get_approved_claims]
    /\ UNCHANGED <<now, next_uuid, faults_left, metadata, photo_files, active_campaigns, reports,
                   summaries, claims, results, payments, pay_count,
                   payment_reports, notifications, format_log>>

(* ProcessPayment that also marks the job's SubmissionResult as paid *)
ProcessPayment_marksResult(claim_info) ==
    /\ claim_info \in held
    /\ next_uuid <= MaxUuid
    /\ \E ok \in BOOLEAN :
        /\ ok \/ faults_left > 0
        /\ faults_left' = IF ok THEN faults_left ELSE faults_left - 1
        /\ payments' = PaymentsAfter(claim_info, next_uuid, ok)
        /\ results' = IF ok
                THEN [results EXCEPT ![claim_info.result.job_id] =
                        [claim_info.result EXCEPT !.status = "Paid"]]
                ELSE results
        /\ pay_count' = IF ok
                THEN [pay_count EXCEPT ![claim_info.result.job_id] = @ + 1]
                ELSE pay_count
        /\ next_uuid' = next_uuid + 1
        /\ ret' = [op |-> "process_payment", arg |-> claim_info.result.job_id,
                   raised |-> FALSE,
                   val |-> IF ok THEN PaymentRecord(claim_info, next_uuid, now)
                           ELSE None]
    /\ UNCHANGED <<now, metadata, photo_files, active_campaigns, reports, summaries, claims,
                   held, payment_reports, notifications, format_log>>

(* process_payment lines 131-176 called on an entry of a list returned  *)
(* by get_approved_claims                                                 *)
ProcessPaymentEffect(claim_info) ==
    /\ claim_info \in held
    /\ next_uuid <= MaxUuid
    /\ \E ok \in BOOLEAN :
        /\ ok \/ faults_left > 0
        /\ faults_left' = IF ok THEN faults_left ELSE faults_left - 1
        /\ payments' = PaymentsAfter(claim_info, next_uuid, ok)
        /\ pay_count' = IF ok
                THEN [pay_count EXCEPT ![claim_info.result.job_id] = @ + 1]
                ELSE pay_count
        /\ next_uuid' = next_uuid + 1
        /\ ret' = [op |-> "process_payment", arg |-> claim_info.result.job_id,
                   raised |-> FALSE,
                   val |-> IF ok THEN PaymentRecord(claim_info, next_uuid, now)
                           ELSE None]
    /\ UNCHANGED <<now, metadata, photo_files, active_campaigns, reports, summaries, claims,
                   results, payment_reports, notifications, format_log>>

(* a caller invokes process_payment on an entry of the list it holds *)
ProcessPayment(claim_info) ==
    ProcessPaymentEffect(claim_info) /\ UNCHANGED held

(* generate_payment_report lines 241-296; ok tells whether the report    *)
(* file write of lines 289-294 succeeds.                                  *)
GeneratePaymentReport(start_arg, end_arg) ==
    LET start_date == IF start_arg = None THEN DefaultStart(now)
                      ELSE start_arg.day
        end_date == IF end_arg = None THEN DefaultEnd(now) ELSE end_arg.day
        report == PaymentReport(start_date, end_date)
        same_name == {r \in payment_reports :
                        r.start_date = start_date /\ r.end_date = end_date}
    IN  /\ same_name # {} \/ Cardinality(payment_reports) < MaxReports
        /\ IF DivRaises(report.average_payment)
           THEN /\ ret' = [op |-> "generate_payment_report", arg |-> 0,
                           raised |-> TRUE, val |-> None]
                /\ UNCHANGED <<payment_reports, faults_left>>
           ELSE \E ok \in BOOLEAN :
                /\ ok \/ faults_left > 0
                /\ faults_left' = IF ok THEN faults_left ELSE faults_left - 1
                /\ payment_reports' =
                        IF ok THEN (payment_reports \ same_name) \cup {report}
                        ELSE payment_reports
                /\ ret' = [op |-> "generate_payment_report", arg |-> 0,
                           raised |-> FALSE, val |-> report]
        /\ UNCHANGED <<now, next_uuid, metadata, photo_files, active_campaigns, reports,
                       summaries, claims, results, payments, pay_count, held,
                       notifications, format_log>>

(* notify_contractor lines 309-336 applied to the payment record of a job *)
NotifyContractor(job_id) ==
    /\ payments[job_id] # None
    /\ \E ok \in BOOLEAN :
        /\ ok \/ faults_left > 0
        /\ faults_left' = IF ok THEN faults_left ELSE faults_left - 1
        /\ notifications' =
                IF ok THEN [notifications EXCEPT
                                ![job_id] = Notification(payments[job_id])]
                ELSE notifications
        /\ ret' = [op |-> "notify_contractor", arg |-> job_id,
                   raised |-> FALSE, val |-> [success |-> ok]]
    /\ UNCHANGED <<now, next_uuid, metadata, photo_files, active_campaigns, reports, summaries,
                   claims, results, payments, pay_count, held,
                   payment_reports, format_log>>

(* the priced part of a claim *)
PricedFields(claim_data) ==
    [line_items |-> claim_data.line_items, totals |-> claim_data.totals]

(* a caller invokes format_for_xactimate on the loaded data of a job; the *)
(* summary it was given and what came back are noted in format_log.       *)
FormatJob(job_id) ==
    /\ load_job_data(job_id) # None
    /\ Len(format_log) < MaxFormatCalls
    /\ next_uuid' = IF FormatRaises(now) THEN next_uuid ELSE next_uuid + 1
    /\ ret' = [op |-> "format_for_xactimate", arg |-> job_id,
               raised |-> FormatRaises(now),
               val |-> IF FormatRaises(now) THEN None
                       ELSE format_for_xactimate(load_job_data(job_id), next_uuid)]
    /\ format_log' = Append(format_log,
            [summary |-> summaries[job_id],
             raised |-> FormatRaises(now),
             priced |-> IF FormatRaises(now) THEN None
                        ELSE PricedFields(format_for_xactimate(
                                load_job_data(job_id), next_uuid))])
    /\ UNCHANGED <<now, faults_left, metadata, photo_files, active_campaigns, reports, summaries,
                   claims, results, payments, pay_count, held,
                   payment_reports, notifications>>

(* a caller invokes get_pending_photos *)
GetPendingPhotos ==
    /\ ret' = [op |-> "get_pending_photos", arg |-> 0, raised |-> FALSE,
               val |-> get_pending_photos]
    /\ UNCHANGED <<now, next_uuid, faults_left, metadata, photo_files, active_campaigns, reports,
                   summaries, claims, results, payments, pay_count, held,
                   payment_reports, notifications, format_log>>

(* a caller invokes get_ready_jobs *)
GetReadyJobs ==
    /\ ret' = [op |-> "get_ready_jobs", arg |-> 0, raised |-> FALSE,
               val |-> get_ready_jobs]
    /\ UNCHANGED <<now, next_uuid, faults_left, metadata, photo_files, active_campaigns, reports,
                   summaries, claims, results, payments, pay_count, held,
                   payment_reports, notifications, format_log>>

(* process_job lines 365-381 called for a job: load_job_data,            *)
(* format_for_xactimate, submit_to_xactimate lines 298-352.  Nothing in   *)
(* this path looks for an existing <job_id>_claim.json.  okC / okR tell   *)
(* whether the claim write and the result write succeed.                  *)
ProcessJobEffect(job_id) ==
    /\ IF load_job_data(job_id) = None
       THEN /\ ret' = [op |-> "process_job", arg |-> job_id, raised |-> FALSE,
                       val |-> None]
            /\ UNCHANGED <<next_uuid, faults_left, claims, results>>
       ELSE IF FormatRaises(now)
       THEN /\ ret' = [op |-> "process_job", arg |-> job_id, raised |-> TRUE,
                       val |-> None]
            /\ UNCHANGED <<next_uuid, faults_left, claims, results>>
       ELSE /\ next_uuid <= MaxUuid
            /\ \E okC \in BOOLEAN, okR \in BOOLEAN,
                  xm \in XactimateIds, days \in EstDaysChoices :
                LET claim_data ==
                        format_for_xactimate(load_job_data(job_id), next_uuid)
                    result == IF okC
                              THEN SubmissionResult(claim_data, xm, days, now)
                              ELSE SubmitFailure(claim_data)
                    failed == (IF okC THEN 0 ELSE 1) + (IF okR THEN 0 ELSE 1)
                IN  /\ ~okC => okR
                    /\ failed <= faults_left
                    /\ faults_left' = faults_left - failed
                    /\ claims' = IF okC THEN [claims EXCEPT ![job_id] = claim_data]
                                 ELSE claims
                    /\ results' = IF okC /\ okR
                                  THEN [results EXCEPT ![job_id] = result]
                                  ELSE results
                    /\ next_uuid' = next_uuid + 1
                    /\ ret' = [op |-> "process_job", arg |-> job_id,
                               raised |-> FALSE, val |-> result]
    /\ UNCHANGED <<now, metadata, photo_files, active_campaigns, reports, summaries, payments,
                   pay_count, payment_reports, notifications, format_log>>

(* a caller invokes process_job directly *)
ProcessJob(job_id) == ProcessJobEffect(job_id) /\ UNCHANGED held

(* Campaign manager: ads_campaign_manager.py *)

(* lines 126-132, in tenths: 0.5, 1.0, 1.5, 2.0, and 1.0 for any other *)
SeverityMultiplier(severity) ==
    CASE severity = "Minor" -> 5
      [] severity = "Moderate" -> 10
      [] severity = "Severe" -> 15
      [] severity = "Extreme" -> 20
      [] OTHER -> 10

(* lines 141-165; daily_budget in tenths of a dollar *)
Campaign(region, id) ==
    [campaign_id |-> id,
     region_id |-> region.id,
     status |-> "ENABLED",
     daily_budget |-> DailyBudget * SeverityMultiplier(region.severity),
     severity |-> region.severity]

(* f with the value v at x, x being in the domain or not *)
Stored(f, x, v) ==
    [y \in DOMAIN f \cup {x} |-> IF y = x THEN v ELSE f[y]]

(* create_campaign_for_region that stores a new campaign on every call *)
CreateCampaignForRegion_recreated(region) ==
    /\ next_uuid <= MaxUuid
    /\ active_campaigns' =
            Stored(active_campaigns, region.id, Campaign(region, next_uuid))
    /\ next_uuid' = next_uuid + 1
    /\ ret' = [op |-> "create_campaign_for_region", arg |-> region,
               raised |-> FALSE, val |-> Campaign(region, next_uuid)]
    /\ UNCHANGED <<now, faults_left, metadata, photo_files, reports,
                   summaries, claims, results, payments, pay_count, held,
                   payment_reports, notifications, format_log>>

(* create_campaign_for_region lines 114-177 *)
CreateCampaignForRegion(region) ==
    /\ IF region.id \in DOMAIN active_campaigns
       THEN /\ ret' = [op |-> "create_campaign_for_region", arg |-> region,
                       raised |-> FALSE, val |-> active_campaigns[region.id]]
            /\ UNCHANGED <<next_uuid, active_campaigns>>
       ELSE /\ next_uuid <= MaxUuid
            /\ active_campaigns' =
                    Stored(active_campaigns, region.id,
                           Campaign(region, next_uuid))
            /\ next_uuid' = next_uuid + 1
            /\ ret' = [op |-> "create_campaign_for_region", arg |-> region,
                       raised |-> FALSE, val |-> Campaign(region, next_uuid)]
    /\ UNCHANGED <<now, faults_left, metadata, photo_files, reports,
                   summaries, claims, results, payments, pay_count, held,
                   payment_reports, notifications, format_log>>

(* update_campaign_status lines 210-218 *)
UpdateCampaignStatus(region_id, status) ==
    /\ IF region_id \notin DOMAIN active_campaigns
       THEN /\ ret' = [op |-> "update_campaign_status", arg |-> region_id,
                       raised |-> FALSE, val |-> FALSE]
            /\ UNCHANGED active_campaigns
       ELSE /\ active_campaigns' =
                    [active_campaigns EXCEPT ![region_id].status = status]
            /\ ret' = [op |-> "update_campaign_status", arg |-> region_id,
                       raised |-> FALSE, val |-> TRUE]
    /\ UNCHANGED <<now, next_uuid, faults_left, metadata, photo_files,
                   reports, summaries, claims, results, payments, pay_count,
                   held, payment_reports, notifications, format_log>>

(* A batch run taken step by step, so that another run can come in       *)
(* between its listing and its processing: held is the list the run got  *)
(* and has not worked off yet.                                            *)

(* process_pending_photos line 217: the run lists the pending photos,    *)
(* each with the metadata read at that moment (lines 94-100)              *)
StartPhotoRun ==
    /\ held = {}
    /\ held' = {[photo_id |-> p, metadata |-> metadata[p]] :
                    p \in get_pending_photos}
    /\ ret' = [op |-> "get_pending_photos", arg |-> 0, raised |-> FALSE,
               val |-> get_pending_photos]
    /\ UNCHANGED <<now, next_uuid, faults_left, metadata, photo_files, active_campaigns, reports,
                   summaries, claims, results, payments, pay_count,
                   payment_reports, notifications, format_log>>

(* lines 224-229: the run analyses the next photo of its list, from the  *)
(* metadata it holds; _update_metadata (lines 263-280) writes that copy  *)
(* back.                                                                  *)
AnalyzeListed(photo_info) ==
    /\ photo_info \in held
    /\ held' = held \ {photo_info}
    /\ IF AnalyzeRaises(photo_info.metadata)
       THEN /\ ret' = [op |-> "analyze_photo", arg |-> photo_info.photo_id,
                       raised |-> TRUE, val |-> None]
            /\ UNCHANGED <<next_uuid, faults_left, metadata, reports>>
       ELSE /\ next_uuid <= MaxUuid
            /\ \E rnd \in PipeRnd, okA \in BOOLEAN, okM \in BOOLEAN :
                LET a == AssessmentOf(photo_info.metadata, rnd, next_uuid)
                    failed == (IF okA THEN 0 ELSE 1) + (IF okM THEN 0 ELSE 1)
                IN  /\ failed <= faults_left
                    /\ faults_left' = faults_left - failed
                    /\ reports' = IF okA
                            THEN [reports EXCEPT ![a.job_id] = @ \cup {a}]
                            ELSE reports
                    /\ metadata' = IF okM
                            THEN [metadata EXCEPT ![photo_info.photo_id] =
                                    UpdatedMetadata(photo_info.metadata, a)]
                            ELSE metadata
                    /\ next_uuid' = next_uuid + 1
                    /\ ret' = [op |-> "analyze_photo",
                               arg |-> photo_info.photo_id,
                               raised |-> FALSE, val |-> a]
    /\ UNCHANGED <<now, photo_files, active_campaigns, summaries, claims, results, payments,
                   pay_count, payment_reports, notifications, format_log>>

(* process_all_jobs line 390: the run lists the ready jobs *)
StartJobRun ==
    /\ held = {}
    /\ held' = {[ready_job |-> j] : j \in get_ready_jobs}
    /\ ret' = [op |-> "get_ready_jobs", arg |-> 0, raised |-> FALSE,
               val |-> get_ready_jobs]
    /\ UNCHANGED <<now, next_uuid, faults_left, metadata, photo_files, active_campaigns, reports,
                   summaries, claims, results, payments, pay_count,
                   payment_reports, notifications, format_log>>

(* lines 397-403: the run calls process_job for the next job of its list *)
SubmitListed(item) ==
    /\ item \in held
    /\ held' = held \ {item}
    /\ ProcessJobEffect(item.ready_job)

(* process_all_payments line 185: the run lists the approved claims *)
StartPaymentRun ==
    /\ held = {}
    /\ held' = get_approved_claims
    /\ ret' = [op |-> "get_approved_claims", arg |-> 0, raised |-> FALSE,
               val |-> get_approved_claims]
    /\ UNCHANGED <<now, next_uuid, faults_left, metadata, photo_files, active_campaigns, reports,
                   summaries, claims, results, payments, pay_count,
                   payment_reports, notifications, format_log>>

(* a run that looks for a PaymentRecord again before it pays *)
PayListed_rechecked(claim_info) ==
    /\ held' = held \ {claim_info}
    /\ IF payments[claim_info.result.job_id] # None
       THEN /\ claim_info \in held
            /\ ret' = [op |-> "process_payment",
                       arg |-> claim_info.result.job_id,
                       raised |-> FALSE, val |-> None]
            /\ UNCHANGED <<now, next_uuid, faults_left, metadata, photo_files, active_campaigns,
                           reports, summaries, claims, results, payments,
                           pay_count, payment_reports, notifications,
                           format_log>>
       ELSE ProcessPaymentEffect(claim_info)

(* lines 192-199: the run calls process_payment for the next entry of    *)
(* its list                                                               *)
PayListed(claim_info) ==
    /\ held' = held \ {claim_info}
    /\ ProcessPaymentEffect(claim_info)

Next ==
    \/ Tick
    \/ ProcessPendingPhotos
    \/ \E j \in Jobs : GenerateJobSummary(j)
    \/ ProcessAllJobs
    \/ \E j \in Jobs : CheckSubmissionStatus(j)
    \/ ProcessAllPayments

Spec == Init /\ [][Next]_vars

(* the pipeline with callers that also invoke process_job directly *)
NextPublic ==
    \/ Next
    \/ \E j \in Jobs : ProcessJob(j)

SpecPublic == Init /\ [][NextPublic]_vars

(* every operation that writes an output record, called one at a time,  *)
(* with record writes that may fail                                       *)
NextFaults ==
    \/ \E p \in DOMAIN metadata : AnalyzePhoto(p)
    \/ \E j \in Jobs : GenerateJobSummary(j)
    \/ \E j \in Jobs : ProcessJob(j)
    \/ GetApprovedClaims
    \/ \E claim_info \in held : ProcessPayment(claim_info)

SpecFaults == InitFaults /\ [][NextFaults]_vars

(* the scanning operations over stores with a malformed record *)
NextMalformed ==
    \/ GetPendingPhotos
    \/ \E j \in Jobs : GenerateJobSummary(j)
    \/ GetReadyJobs
    \/ GetApprovedClaims
    \/ \E start_arg \in DateArgs, end_arg \in DateArgs :
            GeneratePaymentReport(start_arg, end_arg)

SpecMalformed == InitMalformed /\ [][NextMalformed]_vars

(* the operations of the Claim Formatter, the Submission Tracker and the *)
(* Payment Calculator, called in any order                                *)
NextFlow ==
    \/ GetReadyJobs
    \/ \E j \in Jobs : ProcessJob(j)
    \/ ProcessAllJobs
    \/ \E j \in Jobs : CheckSubmissionStatus(j)
    \/ GetApprovedClaims
    \/ \E claim_info \in held : ProcessPayment(claim_info)
    \/ ProcessAllPayments
    \/ \E j \in Jobs : NotifyContractor(j)
    \/ \E start_arg \in DateArgs, end_arg \in DateArgs :
            GeneratePaymentReport(start_arg, end_arg)

SpecFlow == InitFlow /\ [][NextFlow]_vars

(* The stages invoked again and again by a scheduler, every write        *)
(* succeeding: the clock moves on once no stage has anything to do at    *)
(* the current time, and every stage gets its turn.  Job 1 has one       *)
(* uploaded photo whose form had no damage_type, job 2 one photo with an *)
(* unrecognised hint.                                                     *)
InitLive == FreshStores({3, 4}, 0)

StageHasWork ==
    \/ \E p \in get_pending_photos : ~AnalyzeRaises(metadata[p])
    \/ \E j \in Jobs : reports[j] # {} /\ summaries[j] = None
    \/ get_ready_jobs # {} /\ ~FormatRaises(now)
    \/ \E j \in Jobs :
            /\ results[j] # None
            /\ results[j].status = "Submitted"
            /\ ProcessingElapsed(results[j], now)
    \/ get_approved_claims # {}

TickWhenIdle == ~StageHasWork /\ Tick

NextLive ==
    \/ TickWhenIdle
    \/ ProcessPendingPhotos
    \/ \E j \in Jobs : GenerateJobSummary(j)
    \/ ProcessAllJobs
    \/ \E j \in Jobs : CheckSubmissionStatus(j)
    \/ ProcessAllPayments

SpecLive ==
    /\ InitLive
    /\ [][NextLive]_vars
    /\ WF_vars(TickWhenIdle)
    /\ WF_vars(ProcessPendingPhotos)
    /\ \A j \in Jobs : WF_vars(GenerateJobSummary(j))
    /\ WF_vars(ProcessAllJobs)
    /\ \A j \in Jobs : WF_vars(CheckSubmissionStatus(j))
    /\ WF_vars(ProcessAllPayments)

(* the campaign manager called with any region, in any order *)
NextCampaigns ==
    \/ \E region \in Regions : CreateCampaignForRegion(region)
    \/ \E region_id \in RegionIds, status \in CampaignStatuses :
            UpdateCampaignStatus(region_id, status)

SpecCampaigns == InitCampaigns /\ [][NextCampaigns]_vars

(* the pending list asked for before and after a run of the assessor *)
NextPending ==
    \/ GetPendingPhotos
    \/ ProcessPendingPhotos

SpecPending == InitPending /\ [][NextPending]_vars

(* the per-job steps of two jobs in any interleaving; the caller of      *)
(* process_payment gets its claim_info from get_approved_claims          *)
NextParallel ==
    \/ \E j \in Jobs : GenerateJobSummary(j)
    \/ \E j \in Jobs : ProcessJob(j)
    \/ \E j \in Jobs : CheckSubmissionStatus(j)
    \/ GetApprovedClaims
    \/ \E claim_info \in held : ProcessPayment(claim_info)
    \/ \E j \in Jobs : NotifyContractor(j)

SpecParallel == InitParallel /\ [][NextParallel]_vars

(* two overlapping runs of a stage: one taken step by step, the other    *)
(* running as a whole in between                                          *)
NextOverlap ==
    \/ StartPhotoRun
    \/ \E photo_info \in {h \in held : "photo_id" \in DOMAIN h} :
            AnalyzeListed(photo_info)
    \/ ProcessPendingPhotos
    \/ StartJobRun
    \/ \E item \in {h \in held : "ready_job" \in DOMAIN h} :
            SubmitListed(item)
    \/ ProcessAllJobs
    \/ StartPaymentRun
    \/ \E claim_info \in {h \in held : "result" \in DOMAIN h} :
            PayListed(claim_info)
    \/ ProcessAllPayments

SpecOverlap == InitOverlap /\ [][NextOverlap]_vars

(* Assessor and Aggregator over two jobs *)
NextAssess ==
    \/ ProcessPendingPhotos
    \/ \E j \in Jobs : GenerateJobSummary(j)

SpecAssess == InitAssess /\ [][NextAssess]_vars

(* Formatter, Submission Tracker and Payment Calculator over two jobs *)
NextClaims ==
    \/ Tick
    \/ ProcessAllJobs
    \/ \E j \in Jobs : CheckSubmissionStatus(j)
    \/ ProcessAllPayments

SpecClaims == InitClaims /\ [][NextClaims]_vars

(* the same, with callers that list the approved claims and pay them one  *)
(* by one as integration_test.py lines 300-311 does                       *)
NextDirect ==
    \/ NextClaims
    \/ GetApprovedClaims
    \/ \E claim_info \in held : ProcessPayment(claim_info)

SpecDirect == InitClaims /\ [][NextDirect]_vars

(* the formatter applied to every input *)
NextFormat == \E j \in Jobs : FormatJob(j)

SpecFormat == InitFormat /\ [][NextFormat]_vars

(* a photo analysed, with every outcome of the random draws *)
NextAnalyze == \E p \in DOMAIN metadata : AnalyzePhoto(p)

SpecAnalyze == InitAnalyze /\ [][NextAnalyze]_vars

(* the assessed job summarised, once and again *)
NextSummarise == \E j \in Jobs : GenerateJobSummary(j)

SpecSummarise == InitAssessed /\ [][NextSummarise]_vars

(* reports and notifications over the payment records on disk *)
NextReport ==
    \/ \E start_arg \in DateArgs, end_arg \in DateArgs :
            GeneratePaymentReport(start_arg, end_arg)
    \/ \E j \in Jobs : NotifyContractor(j)

SpecReport == InitReport /\ [][NextReport]_vars

(* direct formatter calls at any time, before and after the jobs were     *)
(* submitted                                                              *)
NextPure ==
    \/ Tick
    \/ \E j \in Jobs : FormatJob(j)
    \/ ProcessAllJobs

SpecPure == InitPure /\ [][NextPure]_vars

(* the formatter applied to summaries with repeated categories *)
NextRepeated == \E j \in Jobs : FormatJob(j)

SpecRepeated == InitRepeated /\ [][NextRepeated]_vars

-----------------------------------------------------------------------------
(* Properties *)

Cents(n) == n * (Dollar \div 100)

(* C1: process_payment is idempotent per job - a second invocation for a   *)
(* job that already has a PaymentRecord is a no-op: the record keeps its   *)
(* payment_id, payment_amount and payment_date.                            *)
C1_SecondPaymentIsNoOp ==
    [][\A j \in Jobs : payments[j] # None => payments'[j] = payments[j]]_vars

(* C2: under whole runs of process_all_payments interleaved with           *)
(* process_all_jobs and check_submission_status every job is paid at most  *)
(* once, and get_approved_claims returns exactly the approved jobs that    *)
(* have a Claim record and no PaymentRecord, paired with their records.    *)
C2_PaidAtMostOnce ==
    /\ \A j \in Jobs : pay_count[j] <= 1
    /\ {ci.result.job_id : ci \in get_approved_claims} =
            {j \in Jobs : /\ results[j] # None
                          /\ results[j].status = "Approved"
                          /\ claims[j] # None
                          /\ payments[j] = None}
    /\ \A ci \in get_approved_claims :
            /\ ci.result = results[ci.result.job_id]
            /\ ci.claim = claims[ci.result.job_id]

(* a later payment run found the paid job no longer listed *)
C2_Witness ==
    /\ ret.op = "process_all_payments"
    /\ ret.val = {}
    /\ \E j \in Jobs : /\ pay_count[j] = 1
                       /\ results[j] # None
                       /\ results[j].status = "Approved"

(* C3: a status check moves a SubmissionResult from Submitted to Approved  *)
(* exactly when the whole days since submission_time have reached          *)
(* estimated_processing_days; an earlier check changes no field, and no    *)
(* other step approves.                                                    *)
C3_ApprovedIffElapsed ==
    [][\A j \in Jobs :
        LET checked == ret'.op = "check_submission_status" /\ ret'.arg = j
            elapsed == (now - results[j].submission_time) \div TicksPerDay
                            >= results[j].estimated_processing_days
        IN  results[j] # None =>
                /\ (results[j].status = "Submitted"
                        /\ results'[j].status = "Approved")
                    => (checked /\ elapsed)
                /\ checked =>
                    IF elapsed THEN results'[j].status = "Approved"
                    ELSE results'[j] = results[j]]_vars

(* a check made exactly at the threshold has approved the submission *)
C3_Witness ==
    /\ ret.op = "check_submission_status"
    /\ results[ret.arg] # None
    /\ results[ret.arg].status = "Approved"
    /\ results[ret.arg].approval_date = now
    /\ now - results[ret.arg].submission_time =
            results[ret.arg].estimated_processing_days * TicksPerDay

AggregateFields(summary) ==
    <<summary.assessment_count, summary.overall_severity,
      summary.overall_confidence, summary.damage_summary>>

(* C4: two calls of generate_job_summary for a job with no assessment     *)
(* written in between return the same aggregate numeric fields.           *)
C4_SummaryIsIdempotent ==
    [][(/\ ret.op = "generate_job_summary"
        /\ ret'.op = "generate_job_summary"
        /\ ret'.arg = ret.arg
        /\ ret.val # None
        /\ ret'.val # None)
        => AggregateFields(ret'.val) = AggregateFields(ret.val)]_vars

(* C5: every photo record marked completed names an Assessment record     *)
(* stored under its job, with the same photo id and job id.                *)
C5_CompletedHasAssessment ==
    \A p \in DOMAIN metadata :
        metadata[p].processing_status = "completed" =>
            \E a \in reports[metadata[p].job_id] :
                /\ a.assessment_id = metadata[p].assessment_id
                /\ a.photo_id = metadata[p].photo_id
                /\ a.job_id = metadata[p].job_id

(* C6: every PaymentRecord carries 70% of total_claim_amount, which is    *)
(* the totals.total of the job's Claim record, with payment_percentage    *)
(* 0.7 and status Processed.                                              *)
C6_PaymentIsSeventyPercent ==
    \A j \in Jobs :
        payments[j] # None =>
            /\ claims[j] # None
            /\ payments[j].total_claim_amount = claims[j].totals.total
            /\ payments[j].total_claim_amount % 10 = 0
            /\ payments[j].payment_amount =
                    (payments[j].total_claim_amount \div 10) * 7
            /\ payments[j].payment_percentage * 10 = 7 * 100
            /\ payments[j].status = "Processed"

(* a payment of a claim with a positive total has been written *)
C6_Witness ==
    \E j \in Jobs :
        /\ payments[j] # None
        /\ payments[j].total_claim_amount > 0
        /\ payments[j].job_id = j

Formatted == ret.op = "format_for_xactimate" /\ ~ret.raised
FormattedSummary == summaries[ret.arg].xactimate_summary

ItemsOf(line_items, label) ==
    SelectSeq(line_items, LAMBDA item : item.category = label)

(* C7: in every formatted Claim each line total is quantity x unit price  *)
(* (750.00 for a structural item), subtotal is the sum of the line        *)
(* totals, tax is 7% of subtotal and total is subtotal + tax.             *)
C7_TotalsConsistent ==
    Formatted =>
        LET li == ret.val.line_items
            t == ret.val.totals
        IN  /\ \A i \in 1..Len(li) :
                /\ li[i].total = li[i].quantity * li[i].unit_price
                /\ li[i].category = "Structural" => li[i].total = 750 * Dollar
            /\ t.subtotal = SumSeq([i \in 1..Len(li) |-> li[i].total])
            /\ t.subtotal % 100 = 0
            /\ t.tax = (t.subtotal \div 100) * 7
            /\ t.total = t.subtotal + t.tax

(* a claim with structural and other items and a positive tax *)
C7_Witness ==
    /\ Formatted
    /\ Len(ret.val.line_items) >= 3
    /\ Len(ItemsOf(ret.val.line_items, "Structural")) >= 1
    /\ ret.val.totals.tax > 0

PricedOnce(line_items, label, quantity, price) ==
    LET items == ItemsOf(line_items, label)
    IN  /\ Len(items) = 1
        /\ items[1].quantity = quantity
        /\ items[1].unit_price = price
        /\ items[1].total = quantity * price

(* C8: roof, siding and debris each yield exactly one line item, with     *)
(* the measured area or volume as quantity and unit price 4.50, 3.75 and  *)
(* 45.00; a roof-only summary of 1000 sq ft gives one item of 4500.00,    *)
(* subtotal 4500.00, tax 315.00 and total 4815.00.                        *)
C8_AreaVolumePricing ==
    Formatted =>
        LET xs == FormattedSummary
            li == ret.val.line_items
            t == ret.val.totals
        IN  /\ "roof" \in DOMAIN xs =>
                PricedOnce(li, "Roofing", xs["roof"][1].area_sqft, Cents(450))
            /\ "siding" \in DOMAIN xs =>
                PricedOnce(li, "Exterior", xs["siding"][1].area_sqft, Cents(375))
            /\ "debris" \in DOMAIN xs =>
                PricedOnce(li, "Cleanup", xs["debris"][1].volume_cubic_yards,
                           Cents(4500))
            /\ (DOMAIN xs = {"roof"} /\ xs["roof"][1].area_sqft = 1000) =>
                /\ Len(li) = 1
                /\ li[1].quantity = 1000
                /\ li[1].total = 4500 * Dollar
                /\ t.subtotal = 4500 * Dollar
                /\ t.tax = 315 * Dollar
                /\ t.total = 4815 * Dollar

(* the roof-only summary of 1000 sq ft has been formatted *)
C8_Witness ==
    /\ Formatted
    /\ DOMAIN FormattedSummary = {"roof"}
    /\ FormattedSummary["roof"][1].area_sqft = 1000

(* C9: the single water line item has the affected area as quantity,      *)
(* unit price 2.50 x category and line total area x 2.50 x category       *)
(* (category 3, 200 sq ft: unit price 7.50, line total 1500.00).          *)
C9_WaterLinear ==
    (Formatted /\ "water" \in DOMAIN FormattedSummary) =>
        LET w == FormattedSummary["water"][1]
            items == ItemsOf(ret.val.line_items, "Water Damage")
        IN  /\ w.category \in {1, 2, 3}
            /\ PricedOnce(ret.val.line_items, "Water Damage",
                          w.affected_area_sqft, Cents(250) * w.category)
            /\ (w.category = 3 /\ w.affected_area_sqft = 200) =>
                /\ items[1].unit_price = Cents(750)
                /\ items[1].total = 1500 * Dollar

(* category 3 water damage over 200 sq ft has been formatted *)
C9_Witness ==
    /\ Formatted
    /\ "water" \in DOMAIN FormattedSummary
    /\ FormattedSummary["water"][1].category = 3
    /\ FormattedSummary["water"][1].affected_area_sqft = 200

(* C10: structural damage yields one line item per affected component    *)
(* of the first measurement block, each of quantity 1 and total 750.00,   *)
(* so it adds 750.00 x the number of components to the subtotal.          *)
C10_StructuralPerComponent ==
    (Formatted /\ "structural" \in DOMAIN FormattedSummary) =>
        LET components == FormattedSummary["structural"][1].affected_components
            li == ret.val.line_items
            items == ItemsOf(li, "Structural")
            others == SelectSeq(li, LAMBDA item : item.category # "Structural")
        IN  /\ Len(items) = Len(components)
            /\ \A i \in 1..Len(items) :
                /\ items[i].quantity = 1
                /\ items[i].total = 750 * Dollar
                /\ items[i].item_id[2] = Upper(components[i])
            /\ ret.val.totals.subtotal
                    - SumSeq([i \in 1..Len(others) |-> others[i].total])
                    = 750 * Dollar * Len(components)

(* a structural block with two affected components has been formatted *)
C10_Witness ==
    /\ Formatted
    /\ "structural" \in DOMAIN FormattedSummary
    /\ Len(FormattedSummary["structural"][1].affected_components) = 2

(* what the first measurement block of a category is worth *)
FirstBlockAmount(c, block) ==
    CASE c = "roof" -> block.area_sqft * Cents(450)
      [] c = "siding" -> block.area_sqft * Cents(375)
      [] c = "structural" -> Len(block.affected_components) * 750 * Dollar
      [] c = "water" -> block.affected_area_sqft * Cents(250) * block.category
      [] c = "debris" -> block.volume_cubic_yards * Cents(4500)

FirstBlockItems(c, block) ==
    IF c = "structural" THEN Len(block.affected_components) ELSE 1

CategoryLabel ==
    [roof |-> "Roofing", siding |-> "Exterior", structural |-> "Structural",
     water |-> "Water Damage", debris |-> "Cleanup"]

(* C11: when a category's list in the summary holds several measurement   *)
(* blocks, only the first one is priced: the number of line items, every  *)
(* quantity and the claim total are those of the first blocks alone.      *)
C11_FirstBlockOnly ==
    Formatted =>
        LET xs == FormattedSummary
            li == ret.val.line_items
            firsts == [c \in DOMAIN xs |-> FirstBlockAmount(c, xs[c][1])]
            sum == SumOver(DOMAIN xs, firsts)
        IN  /\ \A c \in DOMAIN xs :
                LET items == ItemsOf(li, CategoryLabel[c])
                IN  /\ Len(items) = FirstBlockItems(c, xs[c][1])
                    /\ SumSeq([i \in 1..Len(items) |-> items[i].total])
                            = firsts[c]
                    /\ c = "roof" => items[1].quantity = xs[c][1].area_sqft
                    /\ c = "siding" => items[1].quantity = xs[c][1].area_sqft
                    /\ c = "water" =>
                            items[1].quantity = xs[c][1].affected_area_sqft
                    /\ c = "debris" =>
                            items[1].quantity = xs[c][1].volume_cubic_yards
                    /\ c = "structural" =>
                            \A i \in 1..Len(items) : items[i].quantity = 1
            /\ Len(li) = SumOver(DOMAIN xs,
                    [c \in DOMAIN xs |-> FirstBlockItems(c, xs[c][1])])
            /\ ret.val.totals.subtotal = sum
            /\ sum % 100 = 0
            /\ ret.val.totals.total = sum + (sum \div 100) * 7

(* a summary whose siding and water lists hold a later block with other  *)
(* measurements than the first has been formatted                         *)
C11_Witness ==
    /\ Formatted
    /\ {"siding", "water", "structural"} \subseteq DOMAIN FormattedSummary
    /\ Len(FormattedSummary["siding"]) >= 2
    /\ FormattedSummary["siding"][2].area_sqft
            # FormattedSummary["siding"][1].area_sqft
    /\ Len(FormattedSummary["water"]) >= 2
    /\ FormattedSummary["water"][2] # FormattedSummary["water"][1]
    /\ Len(FormattedSummary["structural"]) >= 2

Stores ==
    <<metadata, photo_files, reports, summaries, claims, results, payments,
      payment_reports, notifications>>

(* C12: format_for_xactimate is a pure function of the JobSummary: every  *)
(* invocation on the same summary, at whatever time and in whatever store *)
(* state, has the same outcome - the same line items, subtotal, tax and   *)
(* total - and the invocation writes no record.                           *)
C12_FormatIsPure ==
    [][ret'.op = "format_for_xactimate" =>
        /\ Stores' = Stores
        /\ \A i \in DOMAIN format_log :
            format_log[i].summary = format_log'[Len(format_log')].summary =>
                /\ format_log[i].raised = format_log'[Len(format_log')].raised
                /\ format_log[i].priced = format_log'[Len(format_log')].priced
       ]_vars

(* the jobs whose PaymentRecord is dated on a day from start to end *)
PaidWithin(start_date, end_date) ==
    {j \in Jobs :
        /\ payments[j] # None
        /\ start_date <= payments[j].payment_date \div TicksPerDay
        /\ payments[j].payment_date \div TicksPerDay <= end_date}

Reported == ret.op = "generate_payment_report"

(* C13: generate_payment_report over an interval that holds no           *)
(* PaymentRecord raises no error, returns total_payments 0, total_amount *)
(* 0 and average_payment 0, and the report file is written all the same. *)
C13_EmptyReport ==
    [][ret'.op = "generate_payment_report" =>
        /\ ~ret'.raised
        /\ PaidWithin(ret'.val.start_date, ret'.val.end_date) = {} =>
            /\ ret'.val.total_payments = 0
            /\ ret'.val.total_amount = 0
            /\ ret'.val.average_payment.num = 0
            /\ ret'.val.average_payment.den # 0
            /\ faults_left' = faults_left => ret'.val \in payment_reports'
       ]_vars

(* a report over an interval that misses the existing payment has been   *)
(* returned and stored                                                    *)
C13_Witness ==
    /\ Reported
    /\ \E j \in Jobs : payments[j] # None
    /\ ret.val.total_payments = 0
    /\ ret.val \in payment_reports

(* C14: a payment report holds exactly the PaymentRecords dated on a day *)
(* of the closed interval from start to end; total_payments is their     *)
(* count, total_amount and total_claim_amount are their sums and         *)
(* average_payment x total_payments = total_amount; report and           *)
(* notification files of the directory are not counted.                  *)
C14_ReportCoversInterval ==
    (Reported /\ ~ret.raised) =>
        LET r == ret.val
            J == PaidWithin(r.start_date, r.end_date)
        IN  /\ r.payment_records = {payments[j] : j \in J}
            /\ r.total_payments = Cardinality(J)
            /\ r.total_amount =
                    SumOver(J, [j \in J |-> payments[j].payment_amount])
            /\ r.total_claim_amount =
                    SumOver(J, [j \in J |-> payments[j].total_claim_amount])
            /\ r.average_payment.num * r.total_payments
                    = r.total_amount * r.average_payment.den

(* with a report file and a notification file on disk, a report whose    *)
(* end day is the day of one payment counted that payment and not the    *)
(* one made a day later                                                   *)
C14_Witness ==
    /\ Reported
    /\ payment_reports # {}
    /\ \E j \in Jobs : notifications[j] # None
    /\ ret.val.total_payments = 1
    /\ \E j, k \in Jobs :
        /\ payments[j] # None
        /\ payments[k] # None
        /\ payments[j].payment_date \div TicksPerDay = ret.val.end_date
        /\ payments[k].payment_date \div TicksPerDay > ret.val.end_date
        /\ ret.val.payment_records = {payments[j]}

(* C15: get_ready_jobs lists exactly the jobs that have a job summary    *)
(* with xactimate_ready = true and no Claim record; so once a job's      *)
(* Claim is stored, no later process_all_jobs run formats or submits the *)
(* job again.                                                             *)
C15_ReadyOnlyWithoutClaim ==
    [][/\ get_ready_jobs = {j \in Jobs : /\ summaries[j] # None
                                          /\ summaries[j].xactimate_ready
                                          /\ claims[j] = None}
       /\ \A j \in Jobs :
            (claims[j] # None /\ ret'.op = "process_all_jobs") =>
                /\ claims'[j] = claims[j]
                /\ results'[j] = results[j]
                /\ \A result \in ret'.val : result.job_id # j
      ]_vars

(* on a day on which claims can be formatted, a run of process_all_jobs  *)
(* found nothing to do although a summarised job exists: it has its      *)
(* Claim already                                                          *)
C15_Witness ==
    /\ ret.op = "process_all_jobs"
    /\ ret.val = {}
    /\ ~FormatRaises(now)
    /\ \E j \in Jobs : /\ summaries[j] # None
                       /\ claims[j] # None
                       /\ results[j] # None

Summarised == ret.op = "generate_job_summary"

(* C16: generate_job_summary for a job without Assessment records        *)
(* returns None, raises no error and writes no job_summary record; every *)
(* summary it does return has xactimate_ready = true.                    *)
C16_NoAssessmentsNoSummary ==
    [][ret'.op = "generate_job_summary" =>
        /\ ~ret'.raised
        /\ reports[ret'.arg] = {} =>
            /\ ret'.val = None
            /\ summaries' = summaries
            /\ summaries'[ret'.arg] = None
        /\ ret'.val # None => ret'.val.xactimate_ready = TRUE
       ]_vars

(* the call returned None for a job whose photos have no assessment on  *)
(* disk, after another job got its summary                                *)
C16_Witness ==
    /\ Summarised
    /\ ret.val = None
    /\ reports[ret.arg] = {}
    /\ summaries[ret.arg] = None
    /\ \E p \in DOMAIN metadata : metadata[p].job_id = ret.arg
    /\ \E j \in Jobs : /\ summaries[j] # None
                       /\ summaries[j].xactimate_ready

(* |value - sum / n| is at most half a hundredth *)
IsRoundedMean(value, sum, n) ==
    /\ value * n - sum <= 50 * n
    /\ sum - value * n <= 50 * n

(* C17: on every call of generate_job_summary, the first and the later   *)
(* ones, assessment_count is the number of Assessment records stored     *)
(* under the job and overall_severity / overall_confidence are the means *)
(* (kept to two decimals) of the overall values of those records.        *)
C17_CountsAssessmentRecords ==
    [][(ret'.op = "generate_job_summary" /\ ret'.val # None) =>
        LET A == reports[ret'.arg]
            n == Cardinality(A)
        IN  /\ ret'.val.assessment_count = n
            /\ IsRoundedMean(ret'.val.overall_severity,
                    SumOver(A, [a \in A |-> a.overall_severity]), n)
            /\ IsRoundedMean(ret'.val.overall_confidence,
                    SumOver(A, [a \in A |-> a.overall_confidence]), n)
       ]_vars

Analyzed == ret.op = "analyze_photo" /\ ~ret.raised

SeveritySum(a) ==
    SumOver(DOMAIN a.damage_assessment,
            [t \in DOMAIN a.damage_assessment |-> a.damage_assessment[t].severity])
ConfidenceSum(a) ==
    SumOver(DOMAIN a.damage_assessment,
            [t \in DOMAIN a.damage_assessment |-> a.damage_assessment[t].confidence])

InRanges(a) ==
    /\ 3000 <= a.overall_severity /\ a.overall_severity <= 9000
    /\ 7000 <= a.overall_confidence /\ a.overall_confidence <= 9800

(* C19 as stated: overall_severity and overall_confidence of an          *)
(* Assessment equal the arithmetic mean of its per-category severities   *)
(* and confidences, and lie in [0.3, 0.9] and [0.7, 0.98].               *)
C19_OverallIsMean ==
    Analyzed =>
        LET a == ret.val
            n == Cardinality(DOMAIN a.damage_assessment)
        IN  /\ a.overall_severity * n = SeveritySum(a)
            /\ a.overall_confidence * n = ConfidenceSum(a)
            /\ InRanges(a)

(* C19 amended: overall_severity and overall_confidence are the          *)
(* arithmetic means of the per-category values rounded to two decimals   *)
(* - a multiple of 0.01 within 0.005 of the mean - and lie in [0.3, 0.9] *)
(* and [0.7, 0.98]; a stored Assessment is the one that was returned.    *)
C19_OverallIsRoundedMean ==
    Analyzed =>
        LET a == ret.val
            n == Cardinality(DOMAIN a.damage_assessment)
        IN  /\ n >= 1
            /\ a.overall_severity % 100 = 0
            /\ a.overall_confidence % 100 = 0
            /\ IsRoundedMean(a.overall_severity, SeveritySum(a), n)
            /\ IsRoundedMean(a.overall_confidence, ConfidenceSum(a), n)
            /\ InRanges(a)
            /\ reports[a.job_id] = {a}

(* an assessment of two categories whose mean severity has a third       *)
(* decimal                                                                *)
C19_Witness ==
    /\ Analyzed
    /\ Cardinality(DOMAIN ret.val.damage_assessment) = 2
    /\ SeveritySum(ret.val) % 200 # 0
    /\ ret.val.overall_severity * 2 # SeveritySum(ret.val)

(* the Assessment records of a job that contain a category *)
Containing(job_id, t) ==
    {a \in reports[job_id] : t \in DOMAIN a.damage_assessment}

FieldSum(A, t, field) ==
    SumOver(A, [a \in A |-> a.damage_assessment[t][field]])

(* the measurement lists hold one raw block per assessment containing    *)
(* the category, in one reading order of the job's Assessment records    *)
BlocksInReadingOrder(job_id, xactimate_summary) ==
    \E o \in Orders(reports[job_id]) :
        \A c \in AllTypes :
            LET has == SelectSeq(o,
                    LAMBDA a : c \in DOMAIN a.xactimate_measurements)
            IN  IF has = <<>> THEN c \notin DOMAIN xactimate_summary
                ELSE /\ c \in DOMAIN xactimate_summary
                     /\ xactimate_summary[c] =
                            [i \in 1..Len(has) |->
                                has[i].xactimate_measurements[c]]

(* C18 as stated: for every category seen in an Assessment of the job    *)
(* the summary holds the mean severity, confidence and area fraction     *)
(* over the assessments containing it, their number as photo_count, and  *)
(* one raw block per such assessment in reading order; unseen categories *)
(* do not appear.                                                         *)
C18_CategoryMeans ==
    [][(ret'.op = "generate_job_summary" /\ ret'.val # None) =>
        LET j == ret'.arg
            ds == ret'.val.damage_summary
        IN  /\ DOMAIN ds = {t \in AllTypes : Containing(j, t) # {}}
            /\ \A t \in DOMAIN ds :
                LET A == Containing(j, t)
                    n == Cardinality(A)
                IN  /\ ds[t].photo_count = n
                    /\ ds[t].severity * n = FieldSum(A, t, "severity")
                    /\ ds[t].confidence * n = FieldSum(A, t, "confidence")
                    /\ ds[t].area_percentage * n
                            = FieldSum(A, t, "area_percentage")
            /\ BlocksInReadingOrder(j, ret'.val.xactimate_summary)
       ]_vars

(* C18 amended: the same, with each mean rounded to two decimals.        *)
C18_CategoryRoundedMeans ==
    [][(ret'.op = "generate_job_summary" /\ ret'.val # None) =>
        LET j == ret'.arg
            ds == ret'.val.damage_summary
        IN  /\ DOMAIN ds = {t \in AllTypes : Containing(j, t) # {}}
            /\ \A t \in DOMAIN ds :
                LET A == Containing(j, t)
                    n == Cardinality(A)
                IN  /\ ds[t].photo_count = n
                    /\ ds[t].severity % 100 = 0
                    /\ ds[t].confidence % 100 = 0
                    /\ ds[t].area_percentage % 100 = 0
                    /\ IsRoundedMean(ds[t].severity,
                                     FieldSum(A, t, "severity"), n)
                    /\ IsRoundedMean(ds[t].confidence,
                                     FieldSum(A, t, "confidence"), n)
                    /\ IsRoundedMean(ds[t].area_percentage,
                                     FieldSum(A, t, "area_percentage"), n)
            /\ BlocksInReadingOrder(j, ret'.val.xactimate_summary)
       ]_vars

(* a later call, made with job_summary.json in the directory, for a job  *)
(* whose two assessments share a category with different severities and  *)
(* have one category each that the other lacks                            *)
C18_Witness ==
    /\ Summarised
    /\ ret.val # None
    /\ ret.val.assessment_count = 3
    /\ \E t, u, v \in AllTypes :
        /\ Cardinality(Containing(ret.arg, t)) = 2
        /\ Cardinality({a.damage_assessment[t].severity :
                            a \in Containing(ret.arg, t)}) = 2
        /\ ret.val.damage_summary[t].photo_count = 2
        /\ ret.val.damage_summary[t].severity * 2
                # FieldSum(Containing(ret.arg, t), t, "severity")
        /\ u # v
        /\ Cardinality(Containing(ret.arg, u)) = 1
        /\ Cardinality(Containing(ret.arg, v)) = 1
        /\ Containing(ret.arg, u) # Containing(ret.arg, v)

(* C20: a submit_to_xactimate call that returns success has persisted    *)
(* the Claim record and the SubmissionResult record of the job; the      *)
(* result has status Submitted, estimated_payout equal to the claim's    *)
(* totals.total, estimated_processing_days in 3..10 and the claim_id and *)
(* job_id of the claim.                                                   *)
C20_SuccessMeansPersisted ==
    [][ret'.op = "process_all_jobs" =>
        \A result \in ret'.val :
            result.success =>
                LET j == result.job_id
                IN  /\ claims'[j] # None
                    /\ claims'[j].claim_id = result.claim_id
                    /\ claims'[j].job_id = j
                    /\ results'[j] = result
                    /\ result.status = "Submitted"
                    /\ result.estimated_payout = claims'[j].totals.total
                    /\ result.estimated_processing_days \in 3..10
       ]_vars

SubmissionFields ==
    {"success", "claim_id", "job_id", "xactimate_id", "submission_time",
     "estimated_payout", "estimated_processing_days"}

HasApprovedResult(j) == results[j] # None /\ results[j].status = "Approved"

ProgressChain ==
    \A j \in Jobs :
        /\ payments[j] # None => HasApprovedResult(j)
        /\ HasApprovedResult(j) => claims[j] # None
        /\ claims[j] # None => summaries[j] # None
        /\ summaries[j] # None => reports[j] # {}

NothingDeleted ==
    /\ \A p \in DOMAIN metadata : p \in DOMAIN metadata'
    /\ \A j \in Jobs :
        /\ \A a \in reports[j] :
                \E b \in reports'[j] : b.assessment_id = a.assessment_id
        /\ summaries[j] # None => summaries'[j] # None
        /\ claims[j] # None => claims'[j] # None
        /\ results[j] # None => results'[j] # None
        /\ payments[j] # None => payments'[j] # None

(* C22: in every reachable state of the pipeline operations (process_job *)
(* called directly included) a PaymentRecord for a job implies a         *)
(* SubmissionResult with status Approved for it, which implies a Claim   *)
(* record, which implies a JobSummary, which implies at least one        *)
(* Assessment; and no step deletes a record.                              *)
C22_ProgressChain == [][ProgressChain' /\ NothingDeleted]_vars

(* C23: once a Claim record exists for a job no operation replaces it:   *)
(* its claim_id, line items and totals, and the xactimate_id,            *)
(* submission_time and estimated_processing_days of the job's            *)
(* SubmissionResult, stay those of the first submission, also when       *)
(* process_job is called directly for the job.                            *)
C23_ClaimCreatedOnce ==
    [][\A j \in Jobs :
        claims[j] # None =>
            /\ claims'[j] # None
            /\ claims'[j].claim_id = claims[j].claim_id
            /\ claims'[j].line_items = claims[j].line_items
            /\ claims'[j].totals = claims[j].totals
            /\ results[j] # None =>
                /\ results'[j] # None
                /\ results'[j].xactimate_id = results[j].xactimate_id
                /\ results'[j].submission_time = results[j].submission_time
                /\ results'[j].estimated_processing_days
                        = results[j].estimated_processing_days
       ]_vars

AssessedOnce ==
    \A j \in Jobs : \A a \in reports[j] :
        /\ a.photo_id \notin get_pending_photos
        /\ \A b \in reports[j] : b.photo_id = a.photo_id => b = a

(* C24: under whole runs of process_pending_photos in which record       *)
(* writes may fail, a photo with a persisted Assessment is never         *)
(* returned by get_pending_photos again, no second Assessment with its   *)
(* photo_id is created, and no existing Assessment record is rewritten.  *)
C24_AssessedAtMostOnce ==
    [][/\ AssessedOnce'
       /\ \A j \in Jobs : reports[j] \subseteq reports'[j]]_vars

WriteFailed == faults_left' < faults_left

(* C25: when the output record of analyze_photo (Assessment),            *)
(* generate_job_summary (JobSummary), submit_to_xactimate (Claim or      *)
(* SubmissionResult) or process_payment (PaymentRecord) cannot be        *)
(* written, the operation does not return a success result, and it       *)
(* attempts each write once.                                              *)
C25_WriteFailureReported ==
    [][/\ (ret'.op = "analyze_photo" /\ ~ret'.raised /\ reports' = reports)
            => ret'.val = None
       /\ (ret'.op = "generate_job_summary" /\ WriteFailed)
            => ret'.val = None
       /\ (ret'.op = "process_job" /\ WriteFailed)
            => (ret'.val = None \/ ~ret'.val.success)
       /\ (ret'.op = "process_payment" /\ WriteFailed)
            => ret'.val = None
       /\ faults_left - faults_left' <=
            (IF ret'.op \in {"analyze_photo", "process_job"} THEN 2 ELSE 1)
      ]_vars

(* every pending photo whose analysis does not raise has a result in the *)
(* returned list, and every returned result is a stored Assessment whose *)
(* photo is marked completed with it                                      *)
PhotoBatchIsolated ==
    ret'.op = "process_pending_photos" =>
        /\ Cardinality(ret'.val) =
                Cardinality({p \in get_pending_photos :
                                ~AnalyzeRaises(metadata[p])})
        /\ \A id \in ret'.val :
                \E j \in Jobs : \E a \in reports'[j] \ reports[j] :
                    /\ a.assessment_id = id
                    /\ metadata'[a.photo_id].processing_status = "completed"
                    /\ metadata'[a.photo_id].assessment_id = id

(* every ready job whose formatting does not raise has a result in the   *)
(* returned list, and every returned result is a success whose Claim and *)
(* SubmissionResult are stored                                            *)
JobBatchIsolated ==
    ret'.op = "process_all_jobs" =>
        /\ ~FormatRaises(now) =>
                \A j \in get_ready_jobs : \E r \in ret'.val : r.job_id = j
        /\ \A r \in ret'.val :
                /\ r.job_id \in get_ready_jobs
                /\ r.success
                /\ claims'[r.job_id] # None
                /\ claims'[r.job_id].claim_id = r.claim_id
                /\ results'[r.job_id] = r

(* the jobs paid by the batch are the listed ones but for those whose    *)
(* payment write failed                                                   *)
PaymentBatchIsolated ==
    ret'.op = "process_all_payments" =>
        LET A == {ci.result.job_id : ci \in get_approved_claims}
        IN  /\ ret'.val \subseteq A
            /\ Cardinality(A \ ret'.val) = faults_left - faults_left'
            /\ \A j \in A : j \in ret'.val <=> payments'[j] # None

(* C26: in process_pending_photos, process_all_jobs and                   *)
(* process_all_payments a failure while processing one item never aborts *)
(* the batch: every other listed item is still processed, and the        *)
(* returned list holds a result only for the items that were processed   *)
(* successfully.                                                          *)
C26_BatchIsolation ==
    [][PhotoBatchIsolated /\ JobBatchIsolated /\ PaymentBatchIsolated]_vars

(* a record is well formed when it parses and has the fields of its type *)
WellFormed(r, fields) == r # Corrupt /\ fields \subseteq DOMAIN r

MetadataFields == DOMAIN UploadedMetadata(1, 1, "Roof")
AssessmentFields == DOMAIN SeedAssessment(1)
SummaryFields == DOMAIN SeedSummary(1)
ResultFields == DOMAIN SeedResult(1, 1, 0)
PaymentFields == DOMAIN SeedPayment(1, 1, 2, 0)

(* the well-formed files of a job's report directory *)
WellFormedJobFiles(j) ==
    {x \in JobDirFiles(j) :
        \/ WellFormed(x, AssessmentFields)
        \/ WellFormed(x, SummaryFields)}

(* the well-formed payment records of the interval a report was asked for *)
WellFormedPaid(report) ==
    {payments[j] : j \in {k \in Jobs :
        /\ payments[k] # None
        /\ WellFormed(payments[k], PaymentFields)
        /\ start_datetime(report.start_date) <= payments[k].payment_date
        /\ payments[k].payment_date <= end_datetime(report.end_date)}}

ScanSkipsMalformed ==
    /\ ret'.op = "get_pending_photos" =>
        ret'.val = {p \in DOMAIN metadata :
                        /\ WellFormed(metadata[p], MetadataFields)
                        /\ metadata[p].processing_status
                                \in {"absent", "pending"}
                        /\ p \in photo_files}
    /\ ret'.op = "generate_job_summary" =>
        /\ ~ret'.raised
        /\ IF WellFormedJobFiles(ret'.arg) = {} THEN ret'.val = None
           ELSE \E o \in Orders(WellFormedJobFiles(ret'.arg)) :
                    ret'.val = JobSummaryOf(ret'.arg, o)
    /\ ret'.op = "get_ready_jobs" =>
        ret'.val = {j \in Jobs :
                        /\ summaries[j] # None
                        /\ WellFormed(summaries[j], SummaryFields)
                        /\ summaries[j].xactimate_ready
                        /\ claims[j] = None}
    /\ ret'.op = "get_approved_claims" =>
        ret'.val = {[result |-> results[j], claim |-> claims[j]] :
                        j \in {k \in Jobs :
                            /\ results[k] # None
                            /\ WellFormed(results[k], ResultFields)
                            /\ results[k].status = "Approved"
                            /\ payments[k] = None
                            /\ claims[k] # None}}
    /\ ret'.op = "generate_payment_report" =>
        /\ ~ret'.raised
        /\ ret'.val.payment_records = WellFormedPaid(ret'.val)
        /\ ret'.val.total_payments = Cardinality(WellFormedPaid(ret'.val))
        /\ ret'.val.total_amount =
                SumOver(WellFormedPaid(ret'.val),
                        [r \in WellFormedPaid(ret'.val) |-> r.payment_amount])

(* C27: a malformed persisted record is skipped and never stops the      *)
(* scan: with one metadata, assessment, summary, result or payment file  *)
(* unreadable or lacking expected fields, get_pending_photos,            *)
(* generate_job_summary, get_ready_jobs, get_approved_claims and         *)
(* generate_payment_report return what the remaining well-formed         *)
(* records give.                                                          *)
C27_MalformedSkipped == [][ScanSkipsMalformed]_vars

FormatterOps ==
    {"get_ready_jobs", "format_for_xactimate", "process_job",
     "process_all_jobs", "check_submission_status"}

PaymentOps ==
    {"get_approved_claims", "process_payment", "process_all_payments",
     "notify_contractor", "generate_payment_report"}

(* C28: the Claim Formatter / Submission Tracker operations leave every  *)
(* photo metadata, Assessment and JobSummary record unchanged, and the   *)
(* Payment Calculator operations (get_approved_claims, process_payment,  *)
(* notify_contractor, generate_payment_report) leave every Claim and     *)
(* SubmissionResult record unchanged.                                     *)
C28_NoBackChannel ==
    [][/\ ret'.op \in FormatterOps =>
            /\ metadata' = metadata
            /\ reports' = reports
            /\ summaries' = summaries
       /\ ret'.op \in PaymentOps =>
            /\ claims' = claims
            /\ results' = results
      ]_vars

(* a payment was written for a job whose Claim and approved result are   *)
(* still on disk as they were                                             *)
C28_Witness ==
    /\ ret.op = "process_payment"
    /\ ret.val # None
    /\ payments[ret.arg] = ret.val
    /\ claims[ret.arg] # None
    /\ results[ret.arg] # None
    /\ results[ret.arg].status = "Approved"
    /\ ret.val.claim_id = claims[ret.arg].claim_id

(* ---- overlapping runs of one stage ---- *)

(* records with a drawn id that exist in the store *)
AssessmentsOfPhoto(p) ==
    {a \in UNION {reports[j] : j \in Jobs} : a.photo_id = p}

(* ids drawn by submissions since InitOverlap: every id drawn went into  *)
(* an Assessment, a PaymentRecord or a Claim                              *)
SubmissionsMade ==
    (next_uuid - (MaxUuid + 1 - OverlapDraws))
        - (Cardinality(UNION {reports[j] : j \in Jobs}) - 2)
        - pay_count[1] - pay_count[2]

(* C29: a batch run works off the list it took at its start: each step   *)
(* processes the listed item whatever another run of the same stage has  *)
(* written since the listing.  A listed claim is paid (a new             *)
(* PaymentRecord, also when one exists by now), a listed photo gets a    *)
(* new Assessment (also when it is no longer pending), and a listed job  *)
(* is submitted under a new claim_id (also when it has a Claim by now).   *)
C29_ListedItemProcessed ==
    [][\A h \in held : held' = held \ {h} =>
        /\ "result" \in DOMAIN h =>
            /\ pay_count'[h.result.job_id] = pay_count[h.result.job_id] + 1
            /\ payments'[h.result.job_id] # None
            /\ payments'[h.result.job_id].payment_id = next_uuid
        /\ ("photo_id" \in DOMAIN h /\ ~AnalyzeRaises(h.metadata)) =>
            /\ \E a \in reports'[h.metadata.job_id] :
                /\ a.photo_id = h.photo_id
                /\ a.assessment_id = next_uuid
            /\ reports[h.metadata.job_id] \subseteq reports'[h.metadata.job_id]
        /\ ("ready_job" \in DOMAIN h /\ load_job_data(h.ready_job) # None
                /\ ~FormatRaises(now)) =>
            /\ claims'[h.ready_job] # None
            /\ claims'[h.ready_job].claim_id = next_uuid]_vars

(* both runs of every stage have finished: job 2 was paid twice, the     *)
(* pending photo 2 has two Assessments, and job 1 was submitted twice    *)
C29_Witness ==
    /\ held = {}
    /\ pay_count[2] = 2
    /\ Cardinality(AssessmentsOfPhoto(2)) = 2
    /\ claims[2] = SeedClaim(2, 2)
    /\ claims[1] # None
    /\ SubmissionsMade = 2

(* ---- per-job steps of distinct jobs ---- *)

PerJobOps ==
    {"generate_job_summary", "process_job", "check_submission_status",
     "process_payment", "notify_contractor"}

(* the records of one job *)
JobRecords(j) ==
    [reports |-> reports[j], summary |-> summaries[j], claim |-> claims[j],
     result |-> results[j], payment |-> payments[j], paid |-> pay_count[j],
     notification |-> notifications[j]]

(* what a step for job j can leave as the job's records, given only the  *)
(* job's own records v, the clock t, the id drawn, and for               *)
(* process_payment the entries H its caller holds                         *)
OwnOutcomes(op, j, v, t, id, H) ==
    CASE op = "generate_job_summary" ->
            {v} \cup
            {[v EXCEPT !.summary = JobSummaryOf(j, o)] :
                o \in {q \in Orders((v.reports \cup ({v.summary} \ {None}))
                                        \ {Corrupt}) :
                            q # <<>> /\ ~SummaryRaises(q)}}
      [] op = "process_job" ->
            IF v.summary \in {None, Corrupt} \/ FormatRaises(t) THEN {v}
            ELSE LET c == format_for_xactimate(
                                [job_id |-> j, summary |-> v.summary], id)
                 IN  {[v EXCEPT !.claim = c,
                                !.result = SubmissionResult(c, xm, d, t)] :
                        xm \in XactimateIds, d \in EstDaysChoices}
      [] op = "check_submission_status" ->
            IF v.result # None /\ ProcessingElapsed(v.result, t)
            THEN {[v EXCEPT !.result = ApprovedResult(v.result, t)]}
            ELSE {v}
      [] op = "process_payment" ->
            {[v EXCEPT !.payment = PaymentRecord(ci, id, t),
                       !.paid = v.paid + 1] :
                ci \in {h \in H : h.result.job_id = j}}
      [] op = "notify_contractor" ->
            IF v.payment = None THEN {v}
            ELSE {[v EXCEPT !.notification = Notification(v.payment)]}

(* C30: a per-job step for job j leaves every record of the other job    *)
(* and every file that belongs to no job as it was, and what it leaves   *)
(* as the records of j is determined by the records of j, the clock, the *)
(* id it draws and its argument; so the steps of two distinct jobs       *)
(* commute, and any interleaving ends with the records of running one    *)
(* job's steps after the other's.                                         *)
C30_DistinctJobsIndependent ==
    [][\A j \in Jobs :
        (ret'.op \in PerJobOps /\ ret'.arg = j) =>
            /\ \A k \in Jobs \ {j} : JobRecords(k)' = JobRecords(k)
            /\ metadata' = metadata
            /\ photo_files' = photo_files
            /\ payment_reports' = payment_reports
            /\ JobRecords(j)'
                \in OwnOutcomes(ret'.op, j, JobRecords(j), now, next_uuid, held)
      ]_vars

(* steps of the two jobs have been interleaved: job 1 was submitted     *)
(* with the first id drawn, then job 2 was paid with the second, and     *)
(* the last step checked the submission of job 1                          *)
C30_Witness ==
    /\ claims[1] # None
    /\ claims[1].claim_id = MaxUuid - 1
    /\ payments[2] # None
    /\ payments[2].payment_id = MaxUuid
    /\ ret.op = "check_submission_status"
    /\ ret.arg = 1
    /\ ret.val # None

(* ---- the pending list ---- *)

(* C31: get_pending_photos returns exactly the photo records whose       *)
(* status is not "completed" and that have a backing photo file in the   *)
(* upload directory of their job; the others are left out, the call does *)
(* not raise, and without a metadata store the list is empty.            *)
C31_PendingList ==
    ret.op = "get_pending_photos" =>
        /\ ~ret.raised
        /\ ret.val = {p \in DOMAIN metadata :
                        /\ metadata[p].processing_status # "completed"
                        /\ p \in photo_files}
        /\ DOMAIN metadata = {} => ret.val = {}

(* after a run of the assessor the list holds a photo whose status is   *)
(* not completed, and leaves out a completed photo that has a file and   *)
(* a photo that is not completed but has no file                          *)
C31_Witness ==
    /\ ret.op = "get_pending_photos"
    /\ ret.val # {}
    /\ \E p \in DOMAIN metadata \ ret.val :
            /\ metadata[p].processing_status = "completed"
            /\ p \in photo_files
    /\ \E p \in DOMAIN metadata \ ret.val :
            /\ metadata[p].processing_status # "completed"
            /\ p \notin photo_files

(* ---- submission and payment in one run ---- *)

(* C32: when check_submission_status is called for a job in the run that *)
(* submitted it (the clock still reads the submission time), the job is  *)
(* in the list get_approved_claims returns, so that it can be paid at    *)
(* once.                                                                  *)
C32_ApprovedInSameRun ==
    (/\ ret.op = "check_submission_status"
     /\ ret.val # None
     /\ results[ret.arg] # None
     /\ results[ret.arg].submission_time = now)
        => \E claim_info \in get_approved_claims :
                claim_info.result.job_id = ret.arg

(* ---- one run of the assessor ---- *)

(* C33: one run of process_pending_photos assesses every photo that was  *)
(* pending with a backing file, whatever its damage-type hint (also a    *)
(* null one): the photo is marked completed and an Assessment with its   *)
(* photo_id is stored under its job, so that the job has something to    *)
(* summarise.                                                             *)
C33_RunAssessesEveryPending ==
    [][ret'.op = "process_pending_photos" =>
        \A p \in get_pending_photos :
            /\ metadata'[p].processing_status = "completed"
            /\ \E a \in reports'[metadata[p].job_id] : a.photo_id = p]_vars

(* ---- campaigns per region ---- *)

(* C34: create_campaign_for_region is idempotent per region id.  A call  *)
(* for a region id without a campaign stores one ENABLED campaign whose  *)
(* daily budget is the manager's budget times the severity multiplier    *)
(* (Minor 0.5, Moderate 1.0, Severe 1.5, Extreme 2.0, else 1.0; here in  *)
(* tenths); a call for a region id that has a campaign returns the       *)
(* stored campaign and changes nothing.  The number of campaigns is the  *)
(* number of campaign ids drawn, one per distinct region id seen.        *)
C34_CampaignPerRegion ==
    [][ret'.op = "create_campaign_for_region" =>
        LET region == ret'.arg
        IN  /\ DOMAIN active_campaigns' = DOMAIN active_campaigns \cup {region.id}
            /\ Cardinality(DOMAIN active_campaigns') = next_uuid' - 1
            /\ ret'.val = active_campaigns'[region.id]
            /\ IF region.id \in DOMAIN active_campaigns
               THEN /\ active_campaigns' = active_campaigns
                    /\ next_uuid' = next_uuid
               ELSE /\ \A r \in DOMAIN active_campaigns :
                        /\ active_campaigns'[r] = active_campaigns[r]
                        /\ active_campaigns[r].campaign_id # ret'.val.campaign_id
                    /\ ret'.val.region_id = region.id
                    /\ ret'.val.status = "ENABLED"
                    /\ ret'.val.daily_budget =
                        (IF region.severity = "Minor" THEN DailyBudget * 5
                         ELSE IF region.severity = "Severe" THEN DailyBudget * 15
                         ELSE IF region.severity = "Extreme" THEN DailyBudget * 20
                         ELSE DailyBudget * 10)]_vars

(* a second call for a region whose campaign was paused in between, with *)
(* another severity than the one the campaign was created for, returned  *)
(* the stored campaign; the other region has its own campaign             *)
C34_Witness ==
    /\ ret.op = "create_campaign_for_region"
    /\ ret.val.status = "PAUSED"
    /\ ret.val.severity = "Minor"
    /\ ret.arg.severity = "Extreme"
    /\ DOMAIN active_campaigns = RegionIds

(* ---- status of a SubmissionResult ---- *)

(* C35: a stored SubmissionResult changes its status only from Submitted *)
(* to Approved and only in a check_submission_status step; a tick of the *)
(* clock changes no result, and no operation (process_all_jobs,          *)
(* process_job, check_submission_status, process_all_payments) takes an  *)
(* Approved result back to Submitted.                                     *)
C35_OnlySubmittedToApproved ==
    [][\A j \in Jobs :
        results[j] # None =>
            /\ results'[j] # None
            /\ ret'.op = "tick" => results'[j] = results[j]
            /\ results'[j].status # results[j].status =>
                /\ results[j].status = "Submitted"
                /\ results'[j].status = "Approved"
                /\ ret'.op = "check_submission_status"
                /\ ret'.arg = j]_vars

(* ---- the working set of analyze_photo ---- *)

(* C36: the categories of an Assessment returned by analyze_photo        *)
(* contain the hinted category whenever the hint is, case-insensitively, *)
(* one of the five categories, and besides it between 1 and 3 further    *)
(* distinct categories; the set is not empty and every category in it    *)
(* has exactly one measurement block.                                     *)
C36_WorkingSet ==
    (ret.op = "analyze_photo" /\ ~ret.raised) =>
        LET hint == Lower(metadata[ret.arg].damage_type)
            D == DOMAIN ret.val.damage_assessment
            seeded == IF hint \in Range(damage_types) THEN {hint} ELSE {}
        IN  /\ D \subseteq Range(damage_types)
            /\ seeded \subseteq D
            /\ Cardinality(D \ seeded) \in 1..3
            /\ D # {}
            /\ DOMAIN ret.val.xactimate_measurements = D

(* ---- the formatter and the calendar ---- *)

(* C37: on every day of the month format_for_xactimate, given a          *)
(* well-formed job summary, raises no error and returns a Claim with     *)
(* status "Ready for Submission".                                         *)
C37_FormatOnAnyDay ==
    ret.op = "format_for_xactimate" =>
        /\ ~ret.raised
        /\ ret.val.status = "Ready for Submission"

(* ---- claim and submission result ---- *)

(* C38: with record writes that may fail, a job that has a Claim record  *)
(* has a SubmissionResult record too: every job that get_ready_jobs      *)
(* leaves out because of its Claim has a result that                     *)
(* check_submission_status can approve.                                   *)
C38_ClaimHasResult ==
    \A j \in Jobs : claims[j] # None => results[j] # None

(* ---- who is paid ---- *)

(* C39: the PaymentRecord of a job names the contractor who documented   *)
(* the damage: its contractor_id is the contractor_id of the job's photo *)
(* metadata records.                                                      *)
C39_PaymentNamesContractor ==
    \A j \in Jobs :
        payments[j] # None =>
            \A p \in DOMAIN metadata :
                metadata[p].job_id = j =>
                    payments[j].contractor_id = metadata[p].contractor_id

(* ---- end-to-end progress ---- *)

(* a pending photo of job j has a backing file *)
HasPendingPhoto(j) ==
    \E p \in get_pending_photos : metadata[p].job_id = j

(* C40: with the stages invoked again and again, the clock advancing and *)
(* no write failing, every job that has a pending photo with a backing   *)
(* file eventually has a PaymentRecord.                                   *)
C40_EventuallyPaid ==
    \A j \in Jobs : HasPendingPhoto(j) ~> (payments[j] # None)

====
